---- MODULE Spec2Model ----
(***************************************************************************)
(* Order reconciliation between the Marketplace (Refurbed), the ERP        *)
(* (IdoSell) and the Orders / Config worksheets, as implemented in         *)
(* src/integration/{main,refurbed,idosell}.py.                             *)
(*                                                                         *)
(* A handler is modelled as the sequence of its external calls: a step of  *)
(* a handler is one call (a worksheet read or write, a Marketplace or ERP   *)
(* request) together with the local computation that follows it, so that   *)
(* the steps of other handlers, of the operator, of the customer and of    *)
(* the warehouse take place between the calls.  No step makes more than    *)
(* one call.  The answer of the external service (HTTP status of a         *)
(* Marketplace / ERP call, a worksheet write being accepted or raising) is *)
(* an input of the step that makes the call, drawn with \E.  Cells are     *)
(* strings in the sheet; identifiers are modelled as naturals with 0       *)
(* standing for the empty cell ''.  A name is the sequence of its          *)
(* characters.                                                             *)
(***************************************************************************)
EXTENDS Integers, Sequences, FiniteSets, TLC

VARIABLES
    orders,   \* Orders worksheet, data rows only (sheet row r is orders[r-1])
    config,   \* Config worksheet, data rows only: columns D,E of sheet row r are config[r-1]
    mkt,      \* Marketplace: order id -> order
    erp,      \* ERP: order serial number -> order (serial numbers are 1..Len(erp))
    cursor,   \* Config worksheet cell A2: the id of the last fetched order
    last,     \* what the handler run that has just returned read, called and returned
    procs,    \* handler runs in flight: worker -> the call it makes next, its local variables
    archive,  \* Archive worksheet: the data rows (row 1 is the header)
    header    \* Orders worksheet, row 1: the column names; <<>> when the sheet has no row

vars == <<orders, config, mkt, erp, cursor, last, procs, archive, header>>

---------------------------------------------------------------------------
(* Bounds of the model *)
MaxOrders == 2      \* Marketplace order ids are 1..MaxOrders
MaxRows   == 2      \* data rows of the Orders sheet at start
MaxFree   == 2      \* config data rows at start (all free)
MaxErp    == 3      \* ERP orders ever created
MaxKit    == 1      \* kit / bundle keys an operator can enter are 1..MaxKit
MaxDev    == 1      \* external answers per run that deviate from plain success
MaxSpecial == 1     \* Marketplace orders that are not a single laptop item

MIds == 1..MaxOrders
Kits == 0..MaxKit                      \* 0 is the empty cell

Range(s)  == {s[j] : j \in 1..Len(s)}

(* refurbed.py:178-183: the column names of the Orders sheet, its row 1 *)
sheet_header ==
    <<"checkbox", "r_state", "r_country_code", "r_currency_code", "r_total_paid", "vat",
      "id_zestawu", "klasa", "klaw", "bat", "magazyn", "idosell_id", "item_sku",
      "r_item_name", "r_customer_email", "r_first_name", "r_family_name", "r_phone_number",
      "ID">>

(* list.index(name) finds the name in the header row h; it raises          *)
(* ValueError when h does not hold it.  In the header rows of the model a  *)
(* column that is there is at its position in sheet_header.                *)
HasColumn(h, name) == \E k \in 1..Len(h) : h[k] = name

(* Row 1 after a batch_update of cells in rows below it, when the sheet    *)
(* had no row: a row of empty cells as wide as the write                   *)
HeaderAfterWrite(h, width) == IF h = <<>> THEN [k \in 1..width |-> ""] ELSE h

---------------------------------------------------------------------------
(* Insertion-ordered dict (Python dict) as a sequence of [key, val] *)
DictHas(d, k) == \E j \in 1..Len(d) : d[j].key = k
DictPut(d, k, v) ==
    IF DictHas(d, k)
    THEN [j \in 1..Len(d) |-> IF d[j].key = k THEN [key |-> k, val |-> v] ELSE d[j]]
    ELSE Append(d, [key |-> k, val |-> v])

(* str.upper() on the cell values that occur: the words true and false in  *)
(* any letter case; every other cell that occurs holds no lower-case       *)
(* letter                                                                  *)
TrueSpellings ==
    {a \o b \o c \o d : a \in {"t", "T"}, b \in {"r", "R"}, c \in {"u", "U"}, d \in {"e", "E"}}
FalseSpellings ==
    {a \o b \o c \o d \o e : a \in {"f", "F"}, b \in {"a", "A"}, c \in {"l", "L"},
                             d \in {"s", "S"}, e \in {"e", "E"}}
Upper(s) == IF s \in TrueSpellings THEN "TRUE"
            ELSE IF s \in FalseSpellings THEN "FALSE"
            ELSE s

---------------------------------------------------------------------------
(* Marketplace orders: one laptop item, one phone item (premium margin),   *)
(* two paid items (order total differs from the first item's total), or a  *)
(* laptop with a second item at price 0 (total equals the first item's).   *)
Shapes == {"laptop", "phone", "two_items"}
ShapeItems(sh) == CASE sh = "two_items" -> <<60, 40>>
                    [] sh = "with_gift" -> <<100, 0>>
                    [] OTHER            -> <<100>>
MktOrder(sh) == [vis |-> TRUE, state |-> "NEW", total |-> 100, items |-> ShapeItems(sh), shape |-> sh,
                 istate |-> [k \in 1..Len(ShapeItems(sh)) |-> "NEW"]]

---------------------------------------------------------------------------
(* The row mapper's VAT and grade cells.  A cell value is the string the   *)
(* sheet shows for it; an item name is the sequence of its characters.     *)
vat_rates == [AT |-> "20", BE |-> "21", BG |-> "20", HR |-> "25", CY |-> "19", CZ |-> "21",
              DK |-> "25", EE |-> "22", FI |-> "25.5", FR |-> "20", GR |-> "24", DE |-> "19",
              ES |-> "21", NL |-> "21", IE |-> "23", LU |-> "17", LT |-> "21", LV |-> "21",
              MT |-> "18", PL |-> "23", PT |-> "23", RO |-> "19", SK |-> "23", SI |-> "22",
              SE |-> "25", HU |-> "27", IT |-> "22"]

(* str.lower() on an item name, a sequence of characters: the letters A-Z  *)
(* go to a-z, every other character that occurs in a name (a lower-case    *)
(* letter, a digit, a space, a hyphen) stays as it is                      *)
UpperCase == <<"A", "B", "C", "D", "E", "F", "G", "H", "I", "J", "K", "L", "M",
               "N", "O", "P", "Q", "R", "S", "T", "U", "V", "W", "X", "Y", "Z">>
LowerCase == <<"a", "b", "c", "d", "e", "f", "g", "h", "i", "j", "k", "l", "m",
               "n", "o", "p", "q", "r", "s", "t", "u", "v", "w", "x", "y", "z">>
LowerChar(c) == IF \E j \in 1..Len(UpperCase) : UpperCase[j] = c
                THEN LowerCase[CHOOSE j \in 1..Len(UpperCase) : UpperCase[j] = c]
                ELSE c
Lower(s) == [j \in 1..Len(s) |-> LowerChar(s[j])]

(* t in s, for strings *)
Contains(s, t) == \E p \in 0..(Len(s) - Len(t)) : \A j \in 1..Len(t) : s[p + j] = t[j]

(* is_iphone that takes the name as it is written *)
is_iphone_exact_case(item_name) ==
    IF item_name # <<>> THEN Contains(item_name, <<"i", "p", "h", "o", "n", "e">>) ELSE FALSE

(* "iphone" in item_name.lower() if item_name else False *)
is_iphone(item_name) ==
    IF item_name # <<>> THEN Contains(Lower(item_name), <<"i", "p", "h", "o", "n", "e">>) ELSE FALSE

(* vat_value with VAT 0 for every order that carries a tax id *)
vat_value_no_home_rule(country_code, vat_number, item_name) ==
    IF ~is_iphone(item_name)
    THEN IF country_code \in DOMAIN vat_rates
         THEN IF vat_number # "" THEN "0" ELSE vat_rates[country_code]
         ELSE "0"
    ELSE "-1"

(* refurbed.py:196-222; vat_value starts as 0 *)
vat_value(country_code, vat_number, item_name) ==
    IF ~is_iphone(item_name)
    THEN IF country_code \in DOMAIN vat_rates
         THEN IF vat_number # ""
              THEN IF country_code = "PL" THEN "23" ELSE "0"
              ELSE vat_rates[country_code]
         ELSE "0"
    ELSE "-1"

(* klasa that maps the grade of a premium-margin item like any other *)
klasa_premium_graded(has_offer_data, offer_grading, item_name) ==
    LET klasa == IF has_offer_data THEN offer_grading ELSE ""
    IN IF klasa = "B" THEN "A 2" ELSE IF klasa = "C" THEN "A-" ELSE klasa

(* refurbed.py:224-239 *)
klasa(has_offer_data, offer_grading, item_name) ==
    LET klasa0 == IF has_offer_data THEN offer_grading ELSE ""
    IN IF ~is_iphone(item_name)
       THEN IF klasa0 = "B" THEN "A 2" ELSE IF klasa0 = "C" THEN "A-" ELSE klasa0
       ELSE ""

(* _prepare_product_details that sends the VAT cell as it is *)
prepare_product_details_as_is(vat_cell) == [productVat |-> vat_cell]

(* IdoSellAPI._prepare_product_details: the productVat of the request *)
prepare_product_details(vat_cell) ==
    [productVat |-> IF vat_cell = "-1" THEN "0" ELSE vat_cell]

(* The item name of an order of the given shape *)
ShapeName(sh) == IF sh = "phone"
                 THEN <<"A", "p", "p", "l", "e", " ", "i", "P", "h", "o", "n", "e", " ", "1", "2">>
                 ELSE <<"D", "e", "l", "l", " ", "L", "a", "t", "i", "t", "u", "d", "e">>

(* Row written by the row mapper for an order (the cells the push reads); *)
(* the orders of the push model are Polish orders without a tax id        *)
FetchedRow(i, o) ==
    [len |-> 19, checkbox |-> "FALSE", r_state |-> o.state,
     vat |-> vat_value("PL", "", ShapeName(o.shape)),
     id_zestawu |-> 0, idosell_id |-> 0, ID |-> i]

(* The ids of S in ascending order *)
AscSeq(S) == IF S = {} THEN <<>>
             ELSE LET top == CHOOSE x \in S : \A y \in S : y <= x
                  IN SelectSeq([i \in 1..top |-> i], LAMBDA i : i \in S)

Reverse(sq) == [j \in 1..Len(sq) |-> sq[Len(sq) + 1 - j]]
Take(sq, n) == IF Len(sq) <= n THEN sq ELSE SubSeq(sq, 1, n)

(* The item ids of order i, in the order of its "items" *)
ItemsOf(m, i) == [k \in 1..Len(m[i].items) |-> [o |-> i, k |-> k]]

---------------------------------------------------------------------------
(* Marketplace list request with the selected-ids payload; vis: the order  *)
(* is known to the Marketplace's list endpoint.  The answer is one page,   *)
(* sorted by id in descending order: the SelectedLimit greatest ids.       *)
SelectedLimit == 100   \* "limit" of payload_selected

payload_selected(m, order_ids) ==
    Take(Reverse(AscSeq({i \in DOMAIN m : /\ m[i].vis /\ i \in order_ids
                                          /\ m[i].state \notin {"RETURNED", "CANCELLED"}})),
         SelectedLimit)

(* refurbed.py:402-431: the orders of the answer, none on a non-200 answer *)
fetch_selected_orders(m, order_ids, ok) ==
    IF ok THEN payload_selected(m, order_ids) ELSE <<>>

RECURSIVE ItemsOfAll(_, _, _)
ItemsOfAll(m, fetched_orders, n) ==
    IF n > Len(fetched_orders) THEN <<>>
    ELSE ItemsOf(m, fetched_orders[n]) \o ItemsOfAll(m, fetched_orders, n + 1)

list_orders_items(m, order_ids, ok) ==
    IF order_ids = {} THEN <<>>
    ELSE ItemsOfAll(m, fetch_selected_orders(m, order_ids, ok), 1)

---------------------------------------------------------------------------
(* Pending-work selector *)
RECURSIVE PendingAnyState(_, _)
PendingAnyState(data, i) ==
    IF i > Len(data) THEN <<>>
    ELSE IF data[i].len = 0 THEN <<>>
    ELSE IF data[i].len < 2 THEN <<>>
    ELSE (IF Upper(data[i].checkbox) = "TRUE" THEN <<i + 1>> ELSE <<>>)
             \o PendingAnyState(data, i + 1)

(* get_pending_rows without the test of the state column *)
get_pending_rows_any_state(data) == PendingAnyState(data, 1)

(* get_pending_rows that compares the checkbox cell as it is written *)
RECURSIVE PendingExactCase(_, _)
PendingExactCase(data, i) ==
    IF i > Len(data) THEN <<>>
    ELSE IF data[i].len = 0 THEN <<>>
    ELSE IF data[i].len < 2 THEN <<>>
    ELSE (IF data[i].checkbox = "TRUE" /\ data[i].r_state = "NEW"
          THEN <<i + 1>> ELSE <<>>) \o PendingExactCase(data, i + 1)

get_pending_rows_exact_case(data) == PendingExactCase(data, 1)

(* get_pending_rows that numbers the data rows from 1, the header left out *)
RECURSIVE PendingDataIndex(_, _)
PendingDataIndex(data, i) ==
    IF i > Len(data) THEN <<>>
    ELSE IF data[i].len = 0 THEN <<>>
    ELSE IF data[i].len < 2 THEN <<>>
    ELSE (IF Upper(data[i].checkbox) = "TRUE" /\ data[i].r_state = "NEW"
          THEN <<i>> ELSE <<>>) \o PendingDataIndex(data, i + 1)

get_pending_rows_data_index(data) == PendingDataIndex(data, 1)

(* data holds the data rows: data[i] is the row that enumerate(data[1:],   *)
(* start=2) numbers i + 1                                                  *)
RECURSIVE PendingFrom(_, _)
PendingFrom(data, i) ==
    IF i > Len(data) THEN <<>>
    ELSE IF data[i].len = 0 THEN <<>>                       \* "if not row: break"
    ELSE IF data[i].len < 2 THEN <<>>                       \* row[1]: IndexError, caught after the loop
    ELSE (IF Upper(data[i].checkbox) = "TRUE" /\ data[i].r_state = "NEW"
          THEN <<i + 1>> ELSE <<>>) \o PendingFrom(data, i + 1)

get_pending_rows(data) == PendingFrom(data, 1)

(* get_config_rows that looks at the marketplace-id cell only *)
RECURSIVE ConfigScanRefOnly(_, _, _, _)
ConfigScanRefOnly(data, i, needed, acc) ==
    IF i > Len(data) THEN [none |-> acc = <<>>, rows |-> acc]
    ELSE IF data[i].ref = 0
         THEN IF needed - 1 = 0
              THEN [none |-> FALSE, rows |-> Append(acc, i + 1)]
              ELSE ConfigScanRefOnly(data, i + 1, needed - 1, Append(acc, i + 1))
         ELSE ConfigScanRefOnly(data, i + 1, needed, acc)

get_config_rows_ref_only(needed, data) == ConfigScanRefOnly(data, 1, needed, <<>>)

(* Free config slot selector; None is returned as none = TRUE *)
RECURSIVE ConfigScan(_, _, _, _)
ConfigScan(data, i, needed, acc) ==
    IF i > Len(data) THEN [none |-> acc = <<>>, rows |-> acc]
    ELSE IF data[i].ref = 0 /\ data[i].ids = 0
         THEN IF needed - 1 = 0
              THEN [none |-> FALSE, rows |-> Append(acc, i + 1)]
              ELSE ConfigScan(data, i + 1, needed - 1, Append(acc, i + 1))
         ELSE ConfigScan(data, i + 1, needed, acc)

get_config_rows(needed, data) == ConfigScan(data, 1, needed, <<>>)

(* The Config sheet.  config holds the rows below the header down to the   *)
(* last row that has a value: columns D and E of sheet row r are           *)
(* config[r - 1].ref and .ids, and other tells that the row has a value in *)
(* a column the program does not write.  get_all_values returns no row     *)
(* below the last one with a value; cell A2 is the cursor.                 *)
NoValue(row) == row.ref = 0 /\ row.ids = 0 /\ ~row.other

RECURSIVE Trim(_)
Trim(cfg) ==
    IF cfg = <<>> THEN <<>>
    ELSE IF NoValue(cfg[Len(cfg)]) THEN Trim(SubSeq(cfg, 1, Len(cfg) - 1))
    ELSE cfg

(* Config.get_all_values, the rows below the header *)
ConfigValues(cfg, cur) ==
    IF cfg = <<>> /\ cur # 0 THEN <<[ref |-> 0, ids |-> 0, other |-> FALSE]>> ELSE cfg

(* worksheet.batch_update on columns D:E of the Config sheet; a write is   *)
(* [row, ref, ids] with row the 1-based sheet row.  A write below the last *)
(* row with a value makes get_all_values return the rows down to it.       *)
BatchDE(cfg, writes) ==
    LET written == {writes[w].row - 1 : w \in 1..Len(writes)} \cup {Len(cfg)}
        bottom  == CHOOSE n \in written : \A r \in written : r <= n
    IN Trim([r \in 1..bottom |->
                LET old == IF r <= Len(cfg) THEN cfg[r]
                           ELSE [ref |-> 0, ids |-> 0, other |-> FALSE]
                IN IF \E w \in 1..Len(writes) : writes[w].row = r + 1
                   THEN LET w == CHOOSE w \in 1..Len(writes) :
                                     /\ writes[w].row = r + 1
                                     /\ \A v \in 1..Len(writes) : writes[v].row = r + 1 => v <= w
                        IN [old EXCEPT !.ref = writes[w].ref, !.ids = writes[w].ids]
                   ELSE old])

(* The rows update_config chooses when the appended rows are taken to     *)
(* start at the last existing row                                          *)
config_writes_from_last_row(cfg, created_orders) ==
    LET n == Len(created_orders)
        empty_rows == get_config_rows(n, cfg)
        fits == ~empty_rows.none /\ Len(empty_rows.rows) >= n
        num_rows == Len(cfg) + 1
    IN [fits   |-> fits,
        writes |-> [i \in 1..n |->
                       [row |-> IF fits THEN empty_rows.rows[i] ELSE num_rows + (i - 1),
                        ref |-> created_orders[i].ref_id,
                        ids |-> created_orders[i].idosell_id]]]

(* Integration.update_config, from the sheet it read: whether the free     *)
(* rows suffice, and the rows it writes the pairs to                       *)
config_writes(cfg, created_orders) ==
    LET n == Len(created_orders)
        empty_rows == get_config_rows(n, cfg)
        fits == ~empty_rows.none /\ Len(empty_rows.rows) >= n
        num_rows == Len(cfg) + 1                            \* header included
    IN [fits   |-> fits,
        writes |-> [i \in 1..n |->
                       [row |-> IF fits THEN empty_rows.rows[i] ELSE num_rows + (i - 1) + 1,
                        ref |-> created_orders[i].ref_id,
                        ids |-> created_orders[i].idosell_id]]]

(* Integration.update_config with nothing else writing the sheet; ok = the *)
(* worksheet accepts the first write.  The rows append_rows adds hold no   *)
(* value.                                                                  *)
update_config(cfg, cur, created_orders, ok) ==
    IF created_orders = <<>> THEN [ret |-> FALSE, config |-> cfg]
    ELSE IF ~ok THEN [ret |-> FALSE, config |-> cfg]
    ELSE LET p == config_writes(ConfigValues(cfg, cur), created_orders)
         IN [ret |-> TRUE, config |-> BatchDE(cfg, p.writes)]

(* Integration.update_orders_worksheet *)
RefToIdosell(created_orders, ref) ==
    LET j == CHOOSE j \in 1..Len(created_orders) :
                 /\ created_orders[j].ref_id = ref
                 /\ \A k \in 1..Len(created_orders) : created_orders[k].ref_id = ref => k <= j
    IN created_orders[j].idosell_id

InCreated(created_orders, ref) == \E j \in 1..Len(created_orders) : created_orders[j].ref_id = ref

(* The cell writes of update_orders_worksheet without the match on the     *)
(* marketplace id                                                          *)
worksheet_updates_every_row(orders_data, created_orders) ==
    {[row |-> r + 1, idosell_id |-> created_orders[Len(created_orders)].idosell_id] :
        r \in 1..Len(orders_data)}

(* The cell writes update_orders_worksheet collects from the sheet it      *)
(* read: for sheet row row, idosell_id goes to column L and ACCEPTED to    *)
(* column B                                                                *)
worksheet_updates(orders_data, created_orders) ==
    {[row |-> r + 1, idosell_id |-> RefToIdosell(created_orders, orders_data[r].ID)] :
        r \in {q \in 1..Len(orders_data) :
                  orders_data[q].len >= 19 /\ InCreated(created_orders, orders_data[q].ID)}}

(* A sheet row without a value *)
EmptyRow == [len |-> 0, checkbox |-> "", r_state |-> "", vat |-> "",
             id_zestawu |-> 0, idosell_id |-> 0, ID |-> 0]

idosell_col == 12     \* column L

(* worksheet.batch_update of these cells; a write below the last row makes *)
(* the sheet that long                                                     *)
BatchLB(data, batch_update) ==
    LET below == {u.row - 1 : u \in batch_update} \ (1..Len(data))
        n == IF below = {} THEN Len(data) ELSE CHOOSE r \in below : \A x \in below : x <= r
    IN [r \in 1..n |->
          LET row == IF r <= Len(data) THEN data[r] ELSE EmptyRow
          IN IF \E u \in batch_update : u.row = r + 1
             THEN [row EXCEPT !.idosell_id = (CHOOSE u \in batch_update : u.row = r + 1).idosell_id,
                              !.r_state = "ACCEPTED",
                              !.len = IF @ < idosell_col THEN idosell_col ELSE @]
             ELSE row]

(* ok = the worksheet accepts the write *)
update_orders_worksheet(data, created_orders, ok) ==
    IF created_orders = <<>> THEN [status |-> "none", orders |-> data, updated_count |-> 0]
    ELSE LET batch_update == worksheet_updates(data, created_orders)
         IN IF batch_update # {} /\ ~ok
            THEN [status |-> "error", orders |-> data, updated_count |-> 0]
            ELSE [status |-> "success", orders |-> BatchLB(data, batch_update),
                  updated_count |-> Cardinality(batch_update)]

---------------------------------------------------------------------------
(* ERP order creation.  The answers for one marketplace order, named by    *)
(* the first step of create_orders that fails for it:                      *)
(*   no_template  create_body.json is missing: the builder raises its own  *)
(*                exception before any ERP request                         *)
(*   bad_address  the address lookup raises KeyError (a country code that  *)
(*                country_names does not hold), before any ERP request     *)
(*   bundle_500  get_product answers non-200                               *)
(*   create_500 / create_200 / create_207  status of the creation request  *)
(*   edit_500    created (200), the follow-up edit request fails           *)
(*   add_payment_500  created, edit accepted, add_payment fails            *)
(*   confirm_500      created, edit and add_payment accepted,              *)
(*                    confirm_payment fails                                *)
(*   packaging_500    created and paid, the second edit request (made for  *)
(*                    a row with VAT cell -1) fails                        *)
Outcomes == {"no_template", "bad_address", "bundle_500", "create_500", "create_200",
             "create_207", "edit_500", "add_payment_500", "confirm_500", "packaging_500"}

BundleStatus(out) == IF out = "bundle_500" THEN 500 ELSE 200
CreateStatus(out) == CASE out = "create_500" -> 500
                       [] out = "create_207" -> 207
                       [] OTHER              -> 200
EditStatus(out)       == IF out = "edit_500" THEN 500 ELSE 200
AddPaymentStatus(out) == IF out = "add_payment_500" THEN 500 ELSE 200
ConfirmStatus(out)    == IF out = "confirm_500" THEN 500 ELSE 200
PackagingStatus(out)  == IF out = "packaging_500" THEN 500 ELSE 200

(* IdoSellAPI.create_new_order: kind "ok" or the exception raised; order   *)
(* is the order id the error message names (0: none); calls are the ERP    *)
(* requests made                                                           *)
(* create_new_order with the total test after the bundle lookup *)
create_new_order_late_test(ref_id, data_row, found, ref_data, out) ==
    IF ~found
    THEN [kind |-> "KeyError", order |-> 0, calls |-> {}]
    ELSE IF out = "no_template"
    THEN [kind |-> "error", order |-> 0, calls |-> {}]
    ELSE IF out = "bad_address"
    THEN [kind |-> "KeyError", order |-> 0, calls |-> {}]
    ELSE IF BundleStatus(out) # 200
    THEN [kind |-> "error", order |-> 0, calls |-> {"get_product"}]
    ELSE IF ref_data.total # ref_data.items[1]
    THEN [kind |-> "more_than_one_item", order |-> ref_id, calls |-> {"get_product"}]
    ELSE IF CreateStatus(out) \in {200, 207}
    THEN [kind |-> "ok", order |-> 0, calls |-> {"get_product", "create"}]
    ELSE [kind |-> "error", order |-> 0, calls |-> {"get_product", "create"}]

(* create_new_order that takes only status 200 of the creation request *)
create_new_order_200_only(ref_id, data_row, found, ref_data, out) ==
    IF ~found
    THEN [kind |-> "KeyError", order |-> 0, calls |-> {}]
    ELSE IF ref_data.total # ref_data.items[1]
    THEN [kind |-> "more_than_one_item", order |-> ref_id, calls |-> {}]
    ELSE IF out = "no_template"
    THEN [kind |-> "error", order |-> 0, calls |-> {}]
    ELSE IF out = "bad_address"
    THEN [kind |-> "KeyError", order |-> 0, calls |-> {}]
    ELSE IF BundleStatus(out) # 200
    THEN [kind |-> "error", order |-> 0, calls |-> {"get_product"}]
    ELSE IF CreateStatus(out) = 200
    THEN [kind |-> "ok", order |-> 0, calls |-> {"get_product", "create"}]
    ELSE [kind |-> "error", order |-> 0, calls |-> {"get_product", "create"}]

(* create_new_order that does not need the order in the selected-ids answer *)
create_new_order_unlisted(ref_id, data_row, found, ref_data, out) ==
    IF ref_data.total # ref_data.items[1]
    THEN [kind |-> "more_than_one_item", order |-> ref_id, calls |-> {}]
    ELSE IF out = "no_template"
    THEN [kind |-> "error", order |-> 0, calls |-> {}]
    ELSE IF out = "bad_address"
    THEN [kind |-> "KeyError", order |-> 0, calls |-> {}]
    ELSE IF BundleStatus(out) # 200
    THEN [kind |-> "error", order |-> 0, calls |-> {"get_product"}]
    ELSE IF CreateStatus(out) \in {200, 207}
    THEN [kind |-> "ok", order |-> 0, calls |-> {"get_product", "create"}]
    ELSE [kind |-> "error", order |-> 0, calls |-> {"get_product", "create"}]

create_new_order(ref_id, data_row, found, ref_data, out) ==
    IF ~found
    THEN [kind |-> "KeyError", order |-> 0, calls |-> {}]
    ELSE IF ref_data.total # ref_data.items[1]
    THEN [kind |-> "more_than_one_item", order |-> ref_id, calls |-> {}]
    ELSE IF out = "no_template"
    THEN [kind |-> "error", order |-> 0, calls |-> {}]
    ELSE IF out = "bad_address"
    THEN [kind |-> "KeyError", order |-> 0, calls |-> {}]
    ELSE IF BundleStatus(out) # 200
    THEN [kind |-> "error", order |-> 0, calls |-> {"get_product"}]
    ELSE IF CreateStatus(out) \in {200, 207}
    THEN [kind |-> "ok", order |-> 0, calls |-> {"get_product", "create"}]
    ELSE [kind |-> "error", order |-> 0, calls |-> {"get_product", "create"}]

(* idosell.py:157-165: the row is one of a premium-margin item *)
NeedsPackaging(data_row) == data_row.vat = "-1"

(* Status of a created ERP order after the follow-up requests of           *)
(* create_orders: "new" as created, "on_order" with the first edit,        *)
(* "wait_for_packaging" with the second                                    *)
StatusAfterCreate(data_row, out) ==
    IF EditStatus(out) # 200 THEN "new"
    ELSE IF AddPaymentStatus(out) # 200 THEN "on_order"
    ELSE IF ConfirmStatus(out) # 200 THEN "on_order"
    ELSE IF NeedsPackaging(data_row) /\ PackagingStatus(out) = 200 THEN "wait_for_packaging"
    ELSE "on_order"

(* The follow-up requests made: each one raises at its own status test *)
FollowUpCalls(data_row, out) ==
    IF EditStatus(out) # 200 THEN {"edit"}
    ELSE IF AddPaymentStatus(out) # 200 THEN {"edit", "add_payment"}
    ELSE IF ConfirmStatus(out) # 200 \/ ~NeedsPackaging(data_row)
    THEN {"edit", "add_payment", "confirm_payment"}
    ELSE {"edit", "add_payment", "confirm_payment", "edit_packaging"}

(* Kit de-duplication at the head of create_orders *)
RECURSIVE FilterKits(_, _, _)
FilterKits(d, k, seen) ==
    IF k > Len(d) THEN <<>>
    ELSE IF d[k].val.id_zestawu \in seen THEN FilterKits(d, k + 1, seen)
    ELSE <<d[k]>> \o FilterKits(d, k + 1, seen \cup {d[k].val.id_zestawu})

(* The loop of create_orders with no other run between its requests *)
RECURSIVE CreateLoop(_, _, _, _, _, _)
CreateLoop(rows, k, m, selected, out, acc) ==
    IF k > Len(rows) THEN acc
    ELSE LET ref_id   == rows[k].key
             data_row == rows[k].val
             r == create_new_order(ref_id, data_row, ref_id \in selected, m[ref_id], out[ref_id])
             new_order_id == Len(acc.erp) + 1
             called == {[op |-> c, ref |-> ref_id] : c \in r.calls}
         IN IF r.kind = "ok"
            THEN CreateLoop(rows, k + 1, m, selected, out,
                   [acc EXCEPT
                      !.created = Append(@, [ref_id |-> ref_id, idosell_id |-> new_order_id]),
                      !.erp     = Append(@, [ref |-> ref_id,
                                             status |-> StatusAfterCreate(data_row, out[ref_id]),
                                             tracking |-> "None"]),
                      !.calls   = @ \cup called
                                    \cup {[op |-> c, ref |-> ref_id] :
                                             c \in FollowUpCalls(data_row, out[ref_id])},
                      !.results = Append(@, [ref |-> ref_id, kind |-> r.kind, order |-> r.order])])
            ELSE CreateLoop(rows, k + 1, m, selected, out,
                   [acc EXCEPT !.calls = @ \cup called,
                               !.results = Append(@, [ref |-> ref_id, kind |-> r.kind, order |-> r.order])])

(* create_orders that leaves out the rows whose order is in the ERP already *)
create_orders_skip_existing(pending_rows, m, selected, e, out) ==
    LET rows == FilterKits(SelectSeq(pending_rows,
                                     LAMBDA kv : \A k \in 1..Len(e) : e[k].ref # kv.key), 1, {})
    IN CreateLoop(rows, 1, m, selected, out,
                  [rows |-> rows, created |-> <<>>, erp |-> e, calls |-> {}, results |-> <<>>])

(* IdoSellAPI.create_orders: pending_rows is the dict ref_id -> row,       *)
(* selected the orders of ref_data['orders']; rows is                      *)
(* filtered_pending_rows                                                   *)
create_orders(pending_rows, m, selected, e, out) ==
    LET rows == FilterKits(pending_rows, 1, {})
    IN CreateLoop(rows, 1, m, selected, out,
                  [rows |-> rows, created |-> <<>>, erp |-> e, calls |-> {}, results |-> <<>>])

---------------------------------------------------------------------------
(* Item states on the Marketplace.  UpdateOrderItemState sets the state of *)
(* one item; the Marketplace shows an order in a state once every item of  *)
(* the order is in it.                                                     *)
NoUrl == <<>>
TrackingUrl(tracking_number) == <<"https://www.ups.com/track?loc=en_GB&trackingNumber=", tracking_number>>

(* change_state that never attaches the tracking URL *)
change_state_no_url(tracking_number) == NoUrl

change_state_url(tracking_number) ==
    IF tracking_number \notin {"None", ""} THEN TrackingUrl(tracking_number) ELSE NoUrl

SetItemState(m, it, st) ==
    LET istate == [m[it.o].istate EXCEPT ![it.k] = st]
    IN [m EXCEPT ![it.o].istate = istate,
                 ![it.o].state = IF \A k \in 1..Len(istate) : istate[k] = st THEN st ELSE @]

(* The Marketplace itself moves an order, all its items with it *)
SetOrderState(m, i, st) ==
    [m EXCEPT ![i].state = st, ![i].istate = [k \in 1..Len(m[i].items) |-> st]]

(* refurbed.py:571-612 for the items of items_list from position j on;     *)
(* accept is the answer to request number at, every other request is       *)
(* answered 200                                                            *)
RECURSIVE ChangeStates(_, _, _, _, _, _)
ChangeStates(m, items_list, j, st, accept, at) ==
    IF j > Len(items_list) THEN [raised |-> FALSE, made |-> Len(items_list), mkt |-> m]
    ELSE IF j = at /\ accept = "raise" THEN [raised |-> TRUE, made |-> j, mkt |-> m]
    ELSE ChangeStates(IF j = at /\ accept = "http_error" THEN m
                      ELSE SetItemState(m, items_list[j], st),
                      items_list, j + 1, st, accept, at)

StateCalls(items_list, n, st, url) ==
    {[item |-> items_list[j], state |-> st, url |-> url] : j \in 1..n}

(* Integration.set_states_to_accepted with no other run between its        *)
(* requests.  at = 0 with accept = "raise": the list request raises        *)
set_states_to_accepted(m, created_orders, listOk, accept, at) ==
    LET ref_orders == {created_orders[j].ref_id : j \in 1..Len(created_orders)}
    IN IF ref_orders # {} /\ accept = "raise" /\ at = 0
       THEN [raised |-> TRUE, calls |-> {}, mkt |-> m]
       ELSE LET items_list == list_orders_items(m, ref_orders, listOk)
                c == ChangeStates(m, items_list, 1, "ACCEPTED", accept, at)
            IN [raised |-> c.raised,
                calls  |-> StateCalls(items_list, c.made, "ACCEPTED", NoUrl),
                mkt    |-> c.mkt]

(* rows 369-372 of ids_push_all: the dict ref_id -> row of the pending rows *)
RECURSIVE processed_rows(_, _, _)
processed_rows(data, pending_rows, k) ==
    IF k = 0 THEN <<>>
    ELSE DictPut(processed_rows(data, pending_rows, k - 1),
                 data[pending_rows[k] - 1].ID, data[pending_rows[k] - 1])

(* Integration.ids_push_all with no other run between its calls.  env: the *)
(* answers of the external services.                                       *)
ids_push_all(data, cfg, cur, m, e, env) ==
    LET pending_rows == get_pending_rows(data)
        none == [ret |-> "False", orders |-> data, config |-> cfg, mkt |-> m, erp |-> e,
                 pending |-> pending_rows, created |-> <<>>, results |-> <<>>,
                 erpCalls |-> {}, stateCalls |-> {}, cfgRet |-> FALSE, sheetStatus |-> "none"]
    IN IF pending_rows = <<>> THEN none
       ELSE LET processed == processed_rows(data, pending_rows, Len(pending_rows))
                ref_ids   == {processed[j].key : j \in 1..Len(processed)}
                selected  == Range(fetch_selected_orders(m, ref_ids, env.sel))
                c   == create_orders(processed, m, selected, e, env.out)
                uc  == update_config(cfg, cur, c.created, env.cfg)
                acc == set_states_to_accepted(m, c.created, env.list, env.accept, env.at)
                uo  == update_orders_worksheet(data, c.created, env.sheet)
            IN IF acc.raised
               THEN [none EXCEPT !.ret = "raised", !.config = uc.config, !.erp = c.erp,
                                 !.mkt = acc.mkt,
                                 !.created = c.created, !.results = c.results,
                                 !.erpCalls = c.calls, !.stateCalls = acc.calls,
                                 !.cfgRet = uc.ret]
               ELSE [ret |-> "True", orders |-> uo.orders, config |-> uc.config,
                     mkt |-> acc.mkt, erp |-> c.erp,
                     pending |-> pending_rows, created |-> c.created, results |-> c.results,
                     erpCalls |-> c.calls, stateCalls |-> acc.calls,
                     cfgRet |-> uc.ret, sheetStatus |-> uo.status]

PendingIds(data) == {data[r - 1].ID : r \in Range(get_pending_rows(data))}

MaxItemCalls == 2   \* item-state requests of a run of which one may be answered with an error

DefaultEnv == [sel |-> TRUE, out |-> [i \in MIds |-> "create_200"], cfg |-> TRUE,
               list |-> TRUE, accept |-> "ok", at |-> 0, sheet |-> TRUE]

(* The envs one more deviation away from env *)
OneMore(env, ids) ==
    (IF env.sel THEN {[env EXCEPT !.sel = FALSE]} ELSE {})
    \cup (IF env.cfg THEN {[env EXCEPT !.cfg = FALSE]} ELSE {})
    \cup (IF env.list THEN {[env EXCEPT !.list = FALSE]} ELSE {})
    \cup (IF env.sheet THEN {[env EXCEPT !.sheet = FALSE]} ELSE {})
    \cup (IF env.accept = "ok"
          THEN {[env EXCEPT !.accept = "http_error", !.at = j] : j \in 1..MaxItemCalls}
               \cup {[env EXCEPT !.accept = "raise", !.at = j] : j \in 0..MaxItemCalls}
          ELSE {})
    \cup UNION {{[env EXCEPT !.out[i] = o] : o \in Outcomes \ {"create_200"}} :
                   i \in {j \in ids : env.out[j] = "create_200"}}

RECURSIVE EnvsUpTo(_, _)
EnvsUpTo(n, ids) ==
    IF n = 0 THEN {DefaultEnv}
    ELSE LET S == EnvsUpTo(n - 1, ids) IN S \cup UNION {OneMore(env, ids) : env \in S}

(* The answers a run alone may get: at most MaxDev deviate from success *)
PushEnvs(data) ==
    IF get_pending_rows(data) = <<>> THEN {DefaultEnv} ELSE EnvsUpTo(MaxDev, PendingIds(data))

(* The pending rows for which a run completed every step: ERP order        *)
(* created, pair in the config table, row ACCEPTED                         *)
DoneRows(ret, pending_rows, created_orders, data, cfg) ==
    {r \in Range(pending_rows) :
        /\ ret = "True"
        /\ \E j \in 1..Len(created_orders) :
              /\ created_orders[j].ref_id = data[r - 1].ID
              /\ \E q \in 1..Len(cfg) :
                    /\ cfg[q].ref = created_orders[j].ref_id
                    /\ cfg[q].ids = created_orders[j].idosell_id
        /\ data[r - 1].r_state = "ACCEPTED"}

---------------------------------------------------------------------------
(* Handler runs.  Every request runs in an Integration object of its own   *)
(* (push_orders_task is started by the scheduler route and by the GUI      *)
(* route), so runs can overlap.  A worker's pc names the external call it  *)
(* makes next; the other fields are the local variables of its run.        *)
Workers == {"w1", "w2"}
Idle == [w \in Workers |-> [pc |-> "idle"]]
Between == [op |-> "none"]

(* The answers that may deviate from success in a run of the given mode:   *)
(* any, those of the Marketplace to the item list and item-state requests, *)
(* those of the Config worksheet, none                                     *)
Deviations(mode) ==
    CASE mode = "any" -> {"sel", "builder", "erp", "cfg", "list", "accept", "raise", "sheet"}
      [] mode = "mkt" -> {"list", "accept"}
      [] mode = "cfg" -> {"cfg"}
      [] OTHER        -> {}

(* An answer of the given kind may deviate: a run gets at most MaxDev      *)
(* deviating answers                                                       *)
MayDeviate(L, kind) == L.budget > 0 /\ kind \in Deviations(L.mode)

(* ids_push_all, main.py:351-393 *)
PushStart(mode, data, pending_rows, prevDone) ==
    [pc |-> "select", mode |-> mode, budget |-> MaxDev, data |-> data,
     pending_rows |-> pending_rows, prevDone |-> prevDone,
     out |-> DefaultEnv.out, selected |-> {}, rows |-> <<>>, k |-> 0,
     created_orders |-> <<>>, results |-> <<>>, erpCalls |-> {},
     config_data |-> <<>>, writes |-> <<>>, cfgRet |-> FALSE,
     items_list |-> <<>>, j |-> 0, stateCalls |-> {}, batch_update |-> {}, config0 |-> config]

(* The run of worker w returns; after is the Orders sheet it leaves.       *)
(* orders0, config0: the sheets as they were when the run began; sheet0:   *)
(* the Orders sheet right before the last step of the run                  *)
PushReturn(w, L, ret, sheetStatus, after) ==
    /\ procs' = [procs EXCEPT ![w] = [pc |-> "idle"]]
    /\ last' = [op |-> "push",
                run |-> [ret |-> ret, pending |-> L.pending_rows, created |-> L.created_orders,
                         results |-> L.results, erpCalls |-> L.erpCalls,
                         stateCalls |-> L.stateCalls, cfgRet |-> L.cfgRet,
                         sheetStatus |-> sheetStatus],
                orders0 |-> L.data, config0 |-> L.config0, sheet0 |-> orders, out |-> L.out,
                selected |-> L.selected, prevDone |-> L.prevDone,
                done |-> DoneRows(ret, L.pending_rows, L.created_orders, after, config)]

(* ERP orders the runs in flight may still create *)
Reserved(w) ==
    CASE procs[w].pc = "select" -> Len(procs[w].pending_rows)
      [] procs[w].pc \in {"builder", "get_product", "create"} ->
             Len(procs[w].rows) - procs[w].k + 1
      [] procs[w].pc \in {"edit", "add_payment", "confirm_payment", "edit_packaging"} ->
             Len(procs[w].rows) - procs[w].k
      [] OTHER -> 0

(* main.py:355-357: Orders.get_all_values, the pending rows *)
PushRead(w, mode) ==
    /\ procs[w].pc = "idle"
    /\ LET pending_rows == get_pending_rows(orders)
           L == PushStart(mode, orders, pending_rows,
                          IF last.op = "push" THEN last.done ELSE {})
       IN /\ Len(erp) + Reserved("w1") + Reserved("w2") + Len(pending_rows) <= MaxErp
          /\ IF pending_rows = <<>>
             THEN PushReturn(w, L, "False", "none", orders)
             ELSE /\ procs' = [procs EXCEPT ![w] = L]
                  /\ last' = Between
    /\ UNCHANGED <<orders, config, mkt, erp, cursor, archive, header>>

(* main.py:369-375: the list request with the ids of the pending rows;     *)
(* idosell.py:94-108: the rows create_orders keeps                         *)
PushSelect(w) ==
    /\ procs[w].pc = "select"
    /\ \E ok \in BOOLEAN :
          LET L == procs[w]
              processed == processed_rows(L.data, L.pending_rows, Len(L.pending_rows))
              ref_ids   == {processed[j].key : j \in 1..Len(processed)}
              selected  == Range(fetch_selected_orders(mkt, ref_ids, ok))
              rows      == create_orders(processed, mkt, selected, erp, L.out).rows
              L2 == [L EXCEPT !.selected = selected, !.rows = rows, !.k = 1,
                              !.budget = IF ok THEN @ ELSE @ - 1]
          IN /\ ~ok => MayDeviate(L, "sel")
             /\ IF rows = <<>>
                THEN PushReturn(w, L2, "True", "none", orders)
                ELSE /\ procs' = [procs EXCEPT ![w] = [L2 EXCEPT !.pc = "builder"]]
                     /\ last' = Between
    /\ UNCHANGED <<orders, config, mkt, erp, cursor, archive, header>>

(* The row create_orders works on, and what create_new_order does for it   *)
(* under the answer out                                                    *)
RowAt(L) == L.rows[L.k]
Builder(L, out) ==
    create_new_order(RowAt(L).key, RowAt(L).val, RowAt(L).key \in L.selected,
                     mkt[RowAt(L).key], out)

(* idosell.py:167-171: the loop goes on with the next row, and             *)
(* create_orders returns after the last; main.py:378-381                   *)
RowEnds(w, L) ==
    IF L.k < Len(L.rows)
    THEN /\ procs' = [procs EXCEPT ![w] = [L EXCEPT !.pc = "builder", !.k = @ + 1]]
         /\ last' = Between
    ELSE IF L.created_orders = <<>>
    THEN PushReturn(w, L, "True", "none", orders)
    ELSE /\ procs' = [procs EXCEPT ![w] = [L EXCEPT !.pc = "cfg_read"]]
         /\ last' = Between

(* The row ends with the exception r *)
RowFails(w, L, r, out) ==
    RowEnds(w, [L EXCEPT !.out[RowAt(L).key] = out,
                         !.budget = IF out = "create_200" THEN @ ELSE @ - 1,
                         !.results = Append(@, [ref |-> RowAt(L).key, kind |-> r.kind,
                                                order |-> r.order]),
                         !.erpCalls = @ \cup {[op |-> c, ref |-> RowAt(L).key] : c \in r.calls}])

(* idosell.py:113-118, 181-208: the order of the row in the list answer,   *)
(* the total test, the template file create_body.json, the order and       *)
(* client details; no request is made                                      *)
PushBuilder(w) ==
    /\ procs[w].pc = "builder"
    /\ \E out \in {"create_200", "no_template", "bad_address"} :
          LET L == procs[w]
              r == Builder(L, out)
          IN /\ out # "create_200" => MayDeviate(L, "builder") /\ r # Builder(L, "create_200")
             /\ IF r.calls = {}
                THEN RowFails(w, L, r, out)
                ELSE /\ procs' = [procs EXCEPT ![w].pc = "get_product"]
                     /\ last' = Between
    /\ UNCHANGED <<orders, config, mkt, erp, cursor, archive, header>>

(* idosell.py:211-212: the get_product request for the bundle of the row *)
PushGetProduct(w) ==
    /\ procs[w].pc = "get_product"
    /\ \E out \in {"create_200", "bundle_500"} :
          LET L == procs[w]
              r == Builder(L, out)
          IN /\ out # "create_200" => MayDeviate(L, "erp")
             /\ IF r.calls = {"get_product"}
                THEN RowFails(w, L, r, out)
                ELSE /\ procs' = [procs EXCEPT
                            ![w].pc = "create",
                            ![w].erpCalls = @ \cup {[op |-> "get_product", ref |-> RowAt(L).key]}]
                     /\ last' = Between
    /\ UNCHANGED <<orders, config, mkt, erp, cursor, archive, header>>

(* idosell.py:227-236, 120-134: the creation request; the ERP gives the    *)
(* order the next serial number, status "new"                              *)
PushCreate(w) ==
    /\ procs[w].pc = "create"
    /\ \E out \in {"create_200", "create_207", "create_500"} :
          LET L == procs[w]
              r == Builder(L, out)
              ref_id == RowAt(L).key
              new_order_id == Len(erp) + 1
          IN /\ out # "create_200" => MayDeviate(L, "erp")
             /\ IF r.kind = "ok"
                THEN /\ erp' = Append(erp, [ref |-> ref_id, status |-> "new", tracking |-> "None"])
                     /\ procs' = [procs EXCEPT ![w] =
                           [L EXCEPT !.pc = "edit", !.out[ref_id] = out,
                                     !.budget = IF out = "create_200" THEN @ ELSE @ - 1,
                                     !.created_orders = Append(@, [ref_id |-> ref_id,
                                                                  idosell_id |-> new_order_id]),
                                     !.results = Append(@, [ref |-> ref_id, kind |-> r.kind,
                                                            order |-> r.order]),
                                     !.erpCalls = @ \cup {[op |-> "create", ref |-> ref_id]}]]
                     /\ last' = Between
                ELSE /\ erp' = erp
                     /\ RowFails(w, L, r, out)
    /\ UNCHANGED <<orders, config, mkt, cursor, archive, header>>

(* The ERP order the run has just created *)
NewOrderId(L) == L.created_orders[Len(L.created_orders)].idosell_id

(* A follow-up request of the row is answered: it is recorded, and on a    *)
(* non-200 answer the row ends                                             *)
FollowUp(w, L, op, out, ok, next) ==
    LET L2 == [L EXCEPT !.erpCalls = @ \cup {[op |-> op, ref |-> RowAt(L).key]},
                        !.out[RowAt(L).key] = IF ok THEN @ ELSE out,
                        !.budget = IF ok THEN @ ELSE @ - 1]
    IN IF ok /\ next # "end"
       THEN /\ procs' = [procs EXCEPT ![w] = [L2 EXCEPT !.pc = next]]
            /\ last' = Between
       ELSE RowEnds(w, L2)

(* idosell.py:137-149: edit_order with orderStatus on_order *)
PushEdit(w) ==
    /\ procs[w].pc = "edit"
    /\ \E out \in {"create_200", "edit_500"} :
          LET L == procs[w]
              ok == EditStatus(out) = 200
          IN /\ ~ok => MayDeviate(L, "erp")
             /\ erp' = IF ok THEN [erp EXCEPT ![NewOrderId(L)].status = "on_order"] ELSE erp
             /\ FollowUp(w, L, "edit", out, ok, "add_payment")
    /\ UNCHANGED <<orders, config, mkt, cursor, archive, header>>

(* idosell.py:151-152: add_payment *)
PushAddPayment(w) ==
    /\ procs[w].pc = "add_payment"
    /\ \E out \in {"create_200", "add_payment_500"} :
          LET L == procs[w]
              ok == AddPaymentStatus(out) = 200
          IN /\ ~ok => MayDeviate(L, "erp")
             /\ FollowUp(w, L, "add_payment", out, ok, "confirm_payment")
    /\ UNCHANGED <<orders, config, mkt, erp, cursor, archive, header>>

(* idosell.py:154-160: confirm_payment, and the test of the VAT cell *)
PushConfirmPayment(w) ==
    /\ procs[w].pc = "confirm_payment"
    /\ \E out \in {"create_200", "confirm_500"} :
          LET L == procs[w]
              ok == ConfirmStatus(out) = 200
          IN /\ ~ok => MayDeviate(L, "erp")
             /\ FollowUp(w, L, "confirm_payment", out, ok,
                         IF NeedsPackaging(RowAt(L).val) THEN "edit_packaging" ELSE "end")
    /\ UNCHANGED <<orders, config, mkt, erp, cursor, archive, header>>

(* idosell.py:162-165: edit_order with orderStatus wait_for_packaging *)
PushEditPackaging(w) ==
    /\ procs[w].pc = "edit_packaging"
    /\ \E out \in {"create_200", "packaging_500"} :
          LET L == procs[w]
              ok == PackagingStatus(out) = 200
          IN /\ ~ok => MayDeviate(L, "erp")
             /\ erp' = IF ok THEN [erp EXCEPT ![NewOrderId(L)].status = "wait_for_packaging"]
                       ELSE erp
             /\ FollowUp(w, L, "edit_packaging", out, ok, "end")
    /\ UNCHANGED <<orders, config, mkt, cursor, archive, header>>

(* update_config, main.py:121-150: Config.get_all_values and the choice of *)
(* the rows                                                                *)
PushCfgRead(w) ==
    /\ procs[w].pc = "cfg_read"
    /\ LET config_data == ConfigValues(config, cursor)
           p == config_writes(config_data, procs[w].created_orders)
       IN procs' = [procs EXCEPT ![w].pc = IF p.fits THEN "cfg_write" ELSE "cfg_append",
                                 ![w].config_data = config_data, ![w].writes = p.writes]
    /\ last' = Between
    /\ UNCHANGED <<orders, config, mkt, erp, cursor, archive, header>>

(* main.py:152-153: append_rows of rows of empty strings, which adds no    *)
(* value to the sheet; when it raises update_config returns False          *)
PushCfgAppend(w) ==
    /\ procs[w].pc = "cfg_append"
    /\ \E ok \in BOOLEAN :
          /\ ~ok => MayDeviate(procs[w], "cfg")
          /\ procs' = [procs EXCEPT ![w].pc = IF ok THEN "cfg_write" ELSE "list",
                                    ![w].budget = IF ok THEN @ ELSE @ - 1]
    /\ last' = Between
    /\ UNCHANGED <<orders, config, mkt, erp, cursor, archive, header>>

(* main.py:136 / 157: batch_update of columns D:E of the chosen rows *)
PushCfgWrite(w) ==
    /\ procs[w].pc = "cfg_write"
    /\ \E ok \in BOOLEAN :
          /\ ~ok => MayDeviate(procs[w], "cfg")
          /\ config' = IF ok THEN BatchDE(config, procs[w].writes) ELSE config
          /\ procs' = [procs EXCEPT ![w].pc = "list", ![w].cfgRet = ok,
                                    ![w].budget = IF ok THEN @ ELSE @ - 1]
    /\ last' = Between
    /\ UNCHANGED <<orders, mkt, erp, cursor, archive, header>>

(* set_states_to_accepted, main.py:441-446: the list request for the items *)
(* of the created orders; when the request raises ids_push_all raises      *)
PushList(w) ==
    /\ procs[w].pc = "list"
    /\ \E answer \in {"ok", "http_error", "raise"} :
          LET L == procs[w]
              ref_orders == {L.created_orders[j].ref_id : j \in 1..Len(L.created_orders)}
              items_list == list_orders_items(mkt, ref_orders, answer = "ok")
              L2 == [L EXCEPT !.budget = IF answer = "ok" THEN @ ELSE @ - 1]
          IN /\ answer = "http_error" => MayDeviate(L, "list")
             /\ answer = "raise" => MayDeviate(L, "raise")
             /\ IF answer = "raise"
                THEN PushReturn(w, L2, "raised", "none", orders)
                ELSE /\ procs' = [procs EXCEPT ![w] =
                           [L2 EXCEPT !.pc = IF items_list = <<>> THEN "sheet_read" ELSE "change",
                                      !.items_list = items_list, !.j = 1]]
                     /\ last' = Between
    /\ UNCHANGED <<orders, config, mkt, erp, cursor, archive, header>>

(* main.py:448-452: the item-state request for one item of the list; a     *)
(* non-200 answer is logged, a request that raises ends ids_push_all       *)
PushChange(w) ==
    /\ procs[w].pc = "change"
    /\ \E answer \in {"ok", "http_error", "raise"} :
          LET L == procs[w]
              item == L.items_list[L.j]
              L2 == [L EXCEPT !.budget = IF answer = "ok" THEN @ ELSE @ - 1,
                              !.stateCalls = @ \cup {[item |-> item, state |-> "ACCEPTED",
                                                      url |-> NoUrl]},
                              !.j = @ + 1]
          IN /\ answer = "http_error" => MayDeviate(L, "accept")
             /\ answer = "raise" => MayDeviate(L, "raise")
             /\ mkt' = IF answer = "ok" THEN SetItemState(mkt, item, "ACCEPTED") ELSE mkt
             /\ IF answer = "raise"
                THEN PushReturn(w, L2, "raised", "none", orders)
                ELSE /\ procs' = [procs EXCEPT ![w] =
                           [L2 EXCEPT !.pc = IF L.j = Len(L.items_list) THEN "sheet_read"
                                             ELSE "change"]]
                     /\ last' = Between
    /\ UNCHANGED <<orders, config, erp, cursor, archive, header>>

(* update_orders_worksheet, main.py:184-215: Orders.get_all_values and the *)
(* cells to write                                                          *)
PushSheetRead(w) ==
    /\ procs[w].pc = "sheet_read"
    /\ LET L == procs[w]
           batch_update == worksheet_updates(orders, L.created_orders)
       IN IF batch_update = {}
          THEN PushReturn(w, L, "True", "success", orders)
          ELSE /\ procs' = [procs EXCEPT ![w].pc = "sheet_write", ![w].batch_update = batch_update]
               /\ last' = Between
    /\ UNCHANGED <<orders, config, mkt, erp, cursor, archive, header>>

(* main.py:221-222: Orders.batch_update *)
PushSheetWrite(w) ==
    /\ procs[w].pc = "sheet_write"
    /\ \E ok \in BOOLEAN :
          LET after == IF ok THEN BatchLB(orders, procs[w].batch_update) ELSE orders
          IN /\ ~ok => MayDeviate(procs[w], "sheet")
             /\ orders' = after
             /\ header' = IF ok THEN HeaderAfterWrite(header, idosell_col) ELSE header
             /\ PushReturn(w, procs[w], "True", IF ok THEN "success" ELSE "error", after)
    /\ UNCHANGED <<config, mkt, erp, cursor, archive>>

(* The steps of create_orders for one row *)
PushRow(w) ==
    \/ PushBuilder(w)
    \/ PushGetProduct(w)
    \/ PushCreate(w)
    \/ PushEdit(w)
    \/ PushAddPayment(w)
    \/ PushConfirmPayment(w)
    \/ PushEditPackaging(w)

(* The steps of a run after its first read *)
Push(w) ==
    \/ PushSelect(w)
    \/ PushRow(w)
    \/ PushCfgRead(w)
    \/ PushCfgAppend(w)
    \/ PushCfgWrite(w)
    \/ PushList(w)
    \/ PushChange(w)
    \/ PushSheetRead(w)
    \/ PushSheetWrite(w)

(* The operator ticks the checkbox of a row and enters its kit key *)
OperatorCheck ==
    \E r \in 1..Len(orders), kit \in Kits :
        /\ orders[r].checkbox = "FALSE"
        /\ orders' = [orders EXCEPT ![r].checkbox = "TRUE", ![r].id_zestawu = kit]
        /\ last' = Between
        /\ UNCHANGED <<config, mkt, erp, cursor, procs, archive, header>>

(* The customer cancels an order on the Marketplace *)
MktCancel ==
    \E i \in MIds :
        /\ mkt[i].state \in {"NEW", "ACCEPTED"}
        /\ mkt' = SetOrderState(mkt, i, "CANCELLED")
        /\ last' = Between
        /\ UNCHANGED <<orders, config, erp, cursor, procs, archive, header>>

(* The ids of the rows at start, up to renaming of the order ids *)
RowSeqs == {ids \in UNION {[1..n -> MIds] : n \in 1..MaxRows} :
               \A r \in 1..Len(ids) : \A i \in 1..(ids[r] - 1) : \E q \in 1..(r - 1) : ids[q] = i}

(* A Config row that holds no pair and is returned by get_all_values       *)
(* because it holds a value in another column                              *)
FreeRow == [ref |-> 0, ids |-> 0, other |-> TRUE]

Init ==
    /\ mkt \in {m \in [MIds -> {MktOrder(sh) : sh \in Shapes}] :
                   Cardinality({i \in MIds : m[i].shape # "laptop"}) <= MaxSpecial}
    /\ \E ids \in RowSeqs : orders = [r \in 1..Len(ids) |-> FetchedRow(ids[r], mkt[ids[r]])]
    /\ \E n \in 0..MaxFree : config = [r \in 1..n |-> FreeRow]
    /\ erp = <<>>
    /\ cursor = 0
    /\ last = Between
    /\ procs = Idle
    /\ header = sheet_header
    /\ archive = <<>>

Next == PushRead("w1", "any") \/ Push("w1") \/ OperatorCheck \/ MktCancel

Spec == Init /\ [][Next]_vars

---------------------------------------------------------------------------
(* Fetching orders into the Orders sheet *)
PageLimit   == 100     \* "limit" of payload_last
LatestN     == 90      \* default n of fetch_missing_orders
LastRows    == 100     \* rows of the sheet the recovery scan compares with
MaxExtraRows == 1      \* rows the Orders sheet may hold beyond one per Marketplace order

(* The Marketplace's answer to the list call with payload_last / payload_all *)
Listed(m) == {i \in DOMAIN m : m[i].vis /\ m[i].state \notin {"RETURNED", "CANCELLED"}}
payload_last(m, last_id) == Take(AscSeq({i \in Listed(m) : i > last_id}), PageLimit)
payload_all(m, limit) == Take(Reverse(AscSeq(Listed(m))), limit)

(* refurbed.py:93, 109-114: the Orders sheet has a data row and its last   *)
(* row holds an id                                                         *)
SheetGivesId(all_values) ==
    /\ ~(Len(all_values) + 1 <= 1)
    /\ LET last_row == all_values[Len(all_values)]
       IN last_row.len > 18 /\ last_row.ID # 0

(* RefurbedAPI.get_last_order_id with nothing else writing between its two *)
(* reads: all_values are the data rows of the Orders sheet, cur is cell A2 *)
(* of a Config sheet that has a second row                                 *)
get_last_order_id(all_values, cur) ==
    IF SheetGivesId(all_values) THEN all_values[Len(all_values)].ID ELSE cur

(* The row mapper: the rows and the id of the last mapped order (0: '') *)
process_orders_rows(m, ids) ==
    [sheet_rows |-> [j \in 1..Len(ids) |-> FetchedRow(ids[j], m[ids[j]])],
     last_id    |-> IF ids = <<>> THEN 0 ELSE ids[Len(ids)]]

(* RefurbedAPI.update_sheets: the worksheet calls it makes, in order: the  *)
(* rows are appended, A2 is written when an order was mapped, the sheet is *)
(* read for its length, and the checkbox rule is set on columns A, I and J *)
(* when rows were appended                                                 *)
CheckboxCalls(sheet_rows) ==
    <<[call |-> "get_all_values"]>>
        \o (IF sheet_rows # <<>>
            THEN [k \in 1..3 |-> [call |-> "set_data_validation", col |-> <<"A", "I", "J">>[k]]]
            ELSE <<>>)

(* update_sheets that writes A2 before it appends the rows *)
update_sheets_cursor_first(sheet_rows, last_id) ==
    (IF last_id # 0 THEN <<[call |-> "update_acell", value |-> last_id]>> ELSE <<>>)
        \o <<[call |-> "append_rows", rows |-> sheet_rows]>>
        \o CheckboxCalls(sheet_rows)

(* update_sheets that writes A2 whether or not an order was mapped *)
update_sheets_any_last_id(sheet_rows, last_id) ==
    <<[call |-> "append_rows", rows |-> sheet_rows], [call |-> "update_acell", value |-> last_id]>>
        \o CheckboxCalls(sheet_rows)

update_sheets(sheet_rows, last_id) ==
    <<[call |-> "append_rows", rows |-> sheet_rows]>>
        \o (IF last_id # 0 THEN <<[call |-> "update_acell", value |-> last_id]>> ELSE <<>>)
        \o CheckboxCalls(sheet_rows)

(* The worksheets' answer to the calls of one update_sheets call: "ok", or *)
(* the call that raises: "append_raises" (append_rows), "cursor_raises"    *)
(* (the write of A2), "count_raises" (get_all_values), "rule_raises" (a    *)
(* set_data_validation call; in a run alone the first)                     *)
RaisedBy(c) == CASE c.call = "append_rows"    -> "append_raises"
                 [] c.call = "update_acell"   -> "cursor_raises"
                 [] c.call = "get_all_values" -> "count_raises"
                 [] OTHER                     -> "rule_raises"

Raises(c, sheet) == RaisedBy(c) = sheet

(* append_rows puts the rows below the last row of the sheet; on a sheet   *)
(* without any row the first of them becomes row 1.  Of its cells the      *)
(* model holds the checkbox and the state; none is a column name.          *)
RowAsHeader(row) ==
    [k \in 1..row.len |-> IF k = 1 THEN row.checkbox ELSE IF k = 2 THEN row.r_state ELSE ""]

AppendRows(h, data, rows) ==
    IF h = <<>> /\ rows # <<>>
    THEN [header |-> RowAsHeader(Head(rows)), orders |-> data \o Tail(rows)]
    ELSE [header |-> h, orders |-> data \o rows]

(* One worksheet call of update_sheets on a sheet that has its header row *)
SheetCall(c, data, cur) ==
    CASE c.call = "append_rows"  -> [orders |-> data \o c.rows, cursor |-> cur]
      [] c.call = "update_acell" -> [orders |-> data, cursor |-> c.value]
      [] OTHER                   -> [orders |-> data, cursor |-> cur]

(* The calls of update_sheets one after the other, nothing else writing    *)
RECURSIVE RunSheetCalls(_, _, _, _)
RunSheetCalls(calls, data, cur, sheet) ==
    IF calls = <<>> THEN [raised |-> FALSE, orders |-> data, cursor |-> cur]
    ELSE IF Raises(Head(calls), sheet) THEN [raised |-> TRUE, orders |-> data, cursor |-> cur]
    ELSE LET u == SheetCall(Head(calls), data, cur)
         IN RunSheetCalls(Tail(calls), u.orders, u.cursor, sheet)

(* RefurbedAPI.fetch_orders with nothing else running; api: the list call  *)
(* answers 200                                                             *)
fetch_orders(data, cur, m, api, sheet) ==
    LET r_last_id == get_last_order_id(data, cur)
    IN IF ~api THEN [ret |-> "None", orders |-> data, cursor |-> cur, fetched |-> <<>>,
                     starting_after |-> r_last_id]
       ELSE LET fetched == payload_last(m, r_last_id)
                p == process_orders_rows(m, fetched)
                u == RunSheetCalls(update_sheets(p.sheet_rows, p.last_id), data, cur, sheet)
            IN [ret |-> IF u.raised THEN "raised" ELSE "None", orders |-> u.orders,
                cursor |-> u.cursor, fetched |-> fetched, starting_after |-> r_last_id]

(* The ids of the rows the recovery scan compares with *)
all_ids(all_rows) ==
    LET last_rows == IF Len(all_rows) + 1 > LastRows
                     THEN SubSeq(all_rows, Len(all_rows) - LastRows + 1, Len(all_rows))
                     ELSE all_rows
    IN {last_rows[j].ID : j \in {k \in 1..Len(last_rows) : last_rows[k].len > 18}}

(* new_orders without the reversal of the mapped rows *)
new_orders_unreversed(m, orders_listed, ids) ==
    SelectSeq(orders_listed, LAMBDA i : i \notin ids /\ m[i].state \notin {"SHIPPED", "CANCELLED"})

(* refurbed.py:374-388: the listed orders that are missing, in the order   *)
(* in which their rows are written                                         *)
new_orders(m, orders_listed, ids) ==
    Reverse(SelectSeq(orders_listed,
                      LAMBDA i : i \notin ids /\ m[i].state \notin {"SHIPPED", "CANCELLED"}))

(* RefurbedAPI.fetch_missing_orders with nothing else running *)
fetch_missing_orders(data, cur, m, n, api, sheet) ==
    IF ~api THEN [ret |-> "0", orders |-> data, cursor |-> cur, fetched |-> <<>>, count |-> 0]
    ELSE LET missing == new_orders(m, payload_all(m, n), all_ids(data))
         IN IF missing = <<>>
            THEN [ret |-> "0", orders |-> data, cursor |-> cur, fetched |-> <<>>, count |-> 0]
            ELSE LET p == process_orders_rows(m, missing)
                     u == RunSheetCalls(update_sheets(p.sheet_rows, 0), data, cur, sheet)
                 IN [ret |-> IF u.raised THEN "raised" ELSE "count", orders |-> u.orders,
                     cursor |-> u.cursor, fetched |-> missing, count |-> Len(p.sheet_rows)]

(* Fetch runs.  last.clean: every call of every fetch run so far succeeded *)
(* and no two runs overlapped; last.page: the number of orders the last    *)
(* list call of fetch_orders returned, -1 when a call failed or anything   *)
(* but a step of fetch_orders took place since                             *)
(* last.overlaps: the runs so far that started while another run was in   *)
(* flight                                                                  *)
MaxOverlap == 1       \* fetch runs that start while another run is in flight
FetchBetween(page) ==
    [op |-> "none", clean |-> last.clean, page |-> page, overlaps |-> last.overlaps]

(* Rows the runs in flight are about to append *)
ToAppend(w) ==
    IF procs[w].pc = "sheets_call" /\ procs[w].calls # <<>>
       /\ \E k \in 1..Len(procs[w].calls) : procs[w].calls[k].call = "append_rows"
    THEN Len(procs[w].sheet_rows) ELSE 0

(* Worker w starts a run: it is alone when no other run is in flight, and  *)
(* the runs in flight are no longer alone                                  *)
Started(w, L) ==
    [v \in Workers |->
        IF v = w THEN [L EXCEPT !.alone = \A x \in Workers \ {w} : procs[x].pc = "idle"]
        ELSE IF procs[v].pc = "idle" THEN procs[v]
        ELSE [procs[v] EXCEPT !.alone = FALSE]]

Overlapping(w) == \E x \in Workers \ {w} : procs[x].pc # "idle"
MayStart(w) == Overlapping(w) => last.overlaps < MaxOverlap
FetchBegun(w, page) ==
    [FetchBetween(page) EXCEPT !.overlaps = IF Overlapping(w) THEN @ + 1 ELSE @]

FetchStart(op, data, cur) ==
    [pc |-> "idle", op |-> op, data |-> data, cur |-> cur, alone |-> TRUE, m |-> <<>>,
     starting_after |-> 0, prev_page |-> -1, fetched |-> <<>>, sheet_rows |-> <<>>,
     calls |-> <<>>]

(* The fetch run of worker w returns *)
FetchReturn(w, L, ret, api, sheet, page) ==
    /\ procs' = [procs EXCEPT ![w] = [pc |-> "idle"]]
    /\ last' = [op |-> L.op,
                run |-> [ret |-> ret, fetched |-> L.fetched, starting_after |-> L.starting_after,
                         count |-> Len(L.sheet_rows)],
                orders0 |-> L.data, cursor0 |-> L.cur, m |-> L.m, api |-> api, sheet |-> sheet,
                prev_page |-> L.prev_page, alone |-> L.alone,
                clean |-> last.clean /\ api /\ sheet = "ok" /\ L.alone,
                page |-> page, overlaps |-> last.overlaps]

(* RefurbedAPI.fetch_orders.  No route of main.py calls it: the fetch      *)
(* routes go through direct_fetch_orders to fetch_missing_orders           *)
(* (main.py:413-425); it is the incremental fetch of the class.            *)
(* get_last_order_id, refurbed.py:90-114: Orders.get_all_values, the id of *)
(* the last row; a header row without the name ID sends it to the Config   *)
(* sheet (refurbed.py:100-106)                                             *)
FoRead(w) ==
    /\ procs[w].pc = "idle"
    /\ MayStart(w)
    /\ procs' = Started(w, [FetchStart("fetch_orders", orders, cursor) EXCEPT
                               !.pc = IF HasColumn(header, "ID") /\ SheetGivesId(orders)
                                      THEN "fo_list" ELSE "fo_config",
                               !.starting_after = IF HasColumn(header, "ID") /\ SheetGivesId(orders)
                                                  THEN orders[Len(orders)].ID ELSE 0])
    /\ last' = FetchBegun(w, last.page)
    /\ UNCHANGED <<orders, config, mkt, erp, cursor, archive, header>>

(* refurbed.py:95-96, 105-106, 118-119: Config.get_all_values when the     *)
(* Orders sheet gave no id; config[1][0] is cell A2, and an IndexError     *)
(* when the sheet has no second row                                        *)
FoConfigRead(w) ==
    /\ procs[w].pc = "fo_config"
    /\ IF ConfigValues(config, cursor) = <<>>
       THEN FetchReturn(w, [procs[w] EXCEPT !.m = mkt, !.prev_page = last.page],
                        "raised", TRUE, "config_raises", -1)
       ELSE /\ procs' = [procs EXCEPT ![w].pc = "fo_list", ![w].starting_after = cursor]
            /\ last' = FetchBetween(last.page)
    /\ UNCHANGED <<orders, config, mkt, erp, cursor, archive, header>>

(* refurbed.py:312-327: the list call with payload_last, the row mapper *)
FoList(w) ==
    /\ procs[w].pc = "fo_list"
    /\ \E api \in BOOLEAN :
          LET L == procs[w]
              fetched == payload_last(mkt, L.starting_after)
              p == process_orders_rows(mkt, fetched)
              L2 == [L EXCEPT !.pc = "sheets_call", !.m = mkt, !.prev_page = last.page,
                              !.fetched = fetched, !.sheet_rows = p.sheet_rows,
                              !.calls = update_sheets(p.sheet_rows, p.last_id)]
          IN IF ~api
             THEN FetchReturn(w, [L EXCEPT !.m = mkt, !.prev_page = last.page],
                              "None", FALSE, "ok", -1)
             ELSE /\ Len(orders) + Len(fetched) + ToAppend("w1") + ToAppend("w2")
                        <= Cardinality(DOMAIN mkt) + MaxExtraRows
                  /\ procs' = [procs EXCEPT ![w] = L2]
                  /\ last' = FetchBetween(Len(fetched))
    /\ UNCHANGED <<orders, config, mkt, erp, cursor, archive, header>>

(* fetch_missing_orders, refurbed.py:347-357: Orders.get_all_values *)
FmRead(w) ==
    /\ procs[w].pc = "idle"
    /\ MayStart(w)
    /\ procs' = Started(w, [FetchStart("fetch_missing_orders", orders, cursor) EXCEPT
                               !.pc = "fm_list"])
    /\ last' = FetchBegun(w, -1)
    /\ UNCHANGED <<orders, config, mkt, erp, cursor, archive, header>>

(* refurbed.py:359-391: the list call with payload_all, the missing orders *)
FmList(w) ==
    /\ procs[w].pc = "fm_list"
    /\ \E api \in BOOLEAN :
          LET L == procs[w]
              missing == new_orders(mkt, payload_all(mkt, LatestN), all_ids(L.data))
              p == process_orders_rows(mkt, missing)
              L2 == [L EXCEPT !.pc = "sheets_call", !.m = mkt, !.fetched = missing,
                              !.sheet_rows = p.sheet_rows,
                              !.calls = update_sheets(p.sheet_rows, 0)]
          IN IF ~api THEN FetchReturn(w, [L EXCEPT !.m = mkt], "0", FALSE, "ok", -1)
             ELSE IF missing = <<>> THEN FetchReturn(w, [L EXCEPT !.m = mkt], "0", TRUE, "ok", -1)
             ELSE /\ Len(orders) + Len(missing) + ToAppend("w1") + ToAppend("w2")
                        <= Cardinality(DOMAIN mkt) + MaxExtraRows
                  /\ procs' = [procs EXCEPT ![w] = L2]
                  /\ last' = FetchBetween(-1)
    /\ UNCHANGED <<orders, config, mkt, erp, cursor, archive, header>>

(* update_sheets, refurbed.py:277-301: the next worksheet call; when it    *)
(* raises the run raises, after the last one the run returns               *)
SheetsCall(w) ==
    /\ procs[w].pc = "sheets_call"
    /\ \E ok \in BOOLEAN :
          LET L == procs[w]
              c == Head(L.calls)
              u == SheetCall(c, orders, cursor)
              done == IF L.op = "fetch_orders" THEN "None" ELSE "count"
              page == IF L.op = "fetch_orders" THEN last.page ELSE -1
          IN IF ~ok
             THEN /\ UNCHANGED <<orders, cursor, header>>
                  /\ FetchReturn(w, L, "raised", TRUE, RaisedBy(c), -1)
             ELSE /\ orders' = IF c.call = "append_rows"
                                THEN AppendRows(header, orders, c.rows).orders ELSE u.orders
                  /\ header' = IF c.call = "append_rows"
                                THEN AppendRows(header, orders, c.rows).header ELSE header
                  /\ cursor' = u.cursor
                  /\ IF Tail(L.calls) = <<>>
                     THEN FetchReturn(w, L, done, TRUE, "ok", page)
                     ELSE /\ procs' = [procs EXCEPT ![w].calls = Tail(L.calls)]
                          /\ last' = FetchBetween(page)
    /\ UNCHANGED <<config, mkt, erp, archive>>

Fetch(w) ==
    \/ FoRead(w) \/ FoConfigRead(w) \/ FoList(w)
    \/ FmRead(w) \/ FmList(w)
    \/ SheetsCall(w)

(* An order becomes visible to the list endpoint; ids need not arrive in   *)
(* order (an order whose settlement is delayed)                            *)
MktArrive ==
    \E i \in MIds :
        /\ ~mkt[i].vis
        /\ mkt' = [mkt EXCEPT ![i].vis = TRUE]
        /\ last' = FetchBetween(-1)
        /\ UNCHANGED <<orders, config, erp, cursor, procs, archive, header>>

(* A visible order is shipped or cancelled on the Marketplace *)
MktProgress ==
    \E i \in MIds, st \in {"SHIPPED", "CANCELLED"} :
        /\ mkt[i].vis /\ mkt[i].state = "NEW"
        /\ mkt' = SetOrderState(mkt, i, st)
        /\ last' = FetchBetween(-1)
        /\ UNCHANGED <<orders, config, erp, cursor, procs, archive, header>>

InitFetch ==
    /\ mkt = [i \in MIds |-> [MktOrder("laptop") EXCEPT !.vis = FALSE]]
    /\ orders = <<>>
    /\ config = <<FreeRow>>
    /\ erp = <<>>
    /\ cursor = 0
    /\ last = [op |-> "none", clean |-> TRUE, page |-> -1, overlaps |-> 0]
    /\ procs = Idle
    /\ header = sheet_header
    /\ archive = <<>>

NextFetch == (\E w \in Workers : Fetch(w)) \/ MktArrive \/ MktProgress

SpecFetch == InitFetch /\ [][NextFetch]_vars

(* A Marketplace with one order more than a page of the list call holds:   *)
(* the orders MaxOrders+1 .. PageLimit+1 are there from the start, the     *)
(* orders 1..MaxOrders arrive late.  One fetch run at a time.              *)
InitPage ==
    /\ mkt = [i \in 1..(PageLimit + 1) |-> [MktOrder("laptop") EXCEPT !.vis = i \notin MIds]]
    /\ orders = <<>>
    /\ config \in {<<>>, <<FreeRow>>}
    /\ erp = <<>>
    /\ cursor = 0
    /\ last = [op |-> "none", clean |-> TRUE, page |-> -1, overlaps |-> 0]
    /\ procs = Idle
    /\ header = sheet_header
    /\ archive = <<>>

NextPage == Fetch("w1") \/ MktArrive \/ MktProgress

SpecPage == InitPage /\ [][NextPage]_vars

---------------------------------------------------------------------------
(* Archiving completed rows.  Rows are appended and rewritten with the     *)
(* USER_ENTERED option: the worksheet parses a cell as if it was typed in  *)
(* (true/false become the boolean, shown as TRUE/FALSE).                   *)
MaxArch == 3          \* data rows of the Orders sheet at start
state_index == 1      \* index of the r_state column in the header

user_entered(row) == [row EXCEPT !.checkbox = Upper(@)]

Completed(row) == row.len > state_index /\ row.r_state \in {"SHIPPED", "CANCELLED"}

(* sheet_operations.py:40-86, what archive_orders decides from the two     *)
(* sheets it read.  headers: row 1 of the Orders sheet, <<>> when the      *)
(* sheet was read without any row.  outcome names the way the run goes on: *)
(*   IndexError         all_orders[0] on a sheet without rows (line 40),   *)
(*                      not caught: the run raises                         *)
(*   no_r_state         headers.index('r_state') raises ValueError, the    *)
(*                      bare return of line 48: the value None             *)
(*   nothing_completed  the return of line 86: the tuple (None, None)      *)
(*   archived           the return of line 102: the two counts             *)
(* orders, archive: the data rows of the two sheets when every call of the *)
(* run is answered and nothing else writes.                                *)
ArchiveOutcome(headers, data_rows, archived_orders, completed_orders, active_orders) ==
    IF headers = <<>>
    THEN [outcome |-> "IndexError", ret |-> "raised",
          orders |-> data_rows, archive |-> archived_orders]
    ELSE IF ~HasColumn(headers, "r_state")
    THEN [outcome |-> "no_r_state", ret |-> "None",
          orders |-> data_rows, archive |-> archived_orders]
    ELSE IF completed_orders = <<>>
    THEN [outcome |-> "nothing_completed", ret |-> <<"None", "None">>,
          orders |-> data_rows, archive |-> archived_orders]
    ELSE [outcome |-> "archived", ret |-> <<Len(completed_orders), Len(active_orders)>>,
          orders  |-> [k \in 1..Len(active_orders) |-> user_entered(active_orders[k])],
          archive |-> archived_orders \o
                      [k \in 1..Len(completed_orders) |-> user_entered(completed_orders[k])]]

(* archive_orders that drops the rows without an r_state cell *)
archive_orders_drop_short(headers, data_rows, archived_orders) ==
    ArchiveOutcome(headers, data_rows, archived_orders,
                   SelectSeq(data_rows, Completed),
                   SelectSeq(data_rows, LAMBDA row : row.len > state_index /\ ~Completed(row)))

(* SheetOperations.archive_orders, sheet_operations.py:27-102 *)
archive_orders(headers, data_rows, archived_orders) ==
    ArchiveOutcome(headers, data_rows, archived_orders,
                   SelectSeq(data_rows, Completed),
                   SelectSeq(data_rows, LAMBDA row : ~Completed(row)))

ArchRow(i, st) == [FetchedRow(i, MktOrder("laptop")) EXCEPT !.r_state = st]
ShortRow == [EmptyRow EXCEPT !.len = 1, !.checkbox = "FALSE"]
ArchRows == {ArchRow(i, st) : i \in MIds, st \in {"NEW", "ACCEPTED", "SHIPPED", "CANCELLED"}}
               \cup {ShortRow}
ArchTables == UNION {[1..n -> ArchRows] : n \in 0..MaxArch}

(* The run is over.  ret: what it returns, "raised" when it raises;        *)
(* header0, orders0, archive0: the sheets as the run read them.            *)
ArReturn(w, L, ret, outcome) ==
    /\ procs' = [procs EXCEPT ![w] = [pc |-> "idle"]]
    /\ last' = [op |-> "archive_orders", ret |-> ret, outcome |-> outcome,
                header0 |-> L.headers, orders0 |-> L.all_orders,
                archive0 |-> L.archived_orders]

(* A worksheet call that is answered with an error raises out of           *)
(* archive_orders, which catches nothing                                   *)
ArRaise(w, L) == ArReturn(w, L, "raised", "raised")

(* SheetOperations.archive_orders, one step for each worksheet call.       *)
(* budget: the calls of the run that may be answered with an error.        *)
(* sheet_operations.py:35: Orders.get_all_values *)
ArRead(w, budget) ==
    /\ procs[w].pc = "idle"
    /\ \E ok \in BOOLEAN :
          LET L == [pc |-> "ar_archive_read", headers |-> header, all_orders |-> orders,
                    archived_orders |-> archive, budget |-> IF ok THEN budget ELSE budget - 1]
          IN /\ ok \/ budget > 0
             /\ IF ok THEN /\ procs' = [procs EXCEPT ![w] = L]
                           /\ last' = Between
                ELSE ArRaise(w, L)
    /\ UNCHANGED <<orders, config, mkt, erp, cursor, archive, header>>

(* sheet_operations.py:36-86: Archive.get_all_values, the header row, the  *)
(* r_state column, the completed and the active rows.  The run is over     *)
(* here when the Orders sheet was read without any row (IndexError), when  *)
(* its header row has no r_state column (returns None) and when no row is  *)
(* completed (returns (None, None)).                                       *)
ArArchiveRead(w) ==
    /\ procs[w].pc = "ar_archive_read"
    /\ \E ok \in BOOLEAN :
          LET P == procs[w]
              r == archive_orders(P.headers, P.all_orders, archive)
              L == [pc |-> "ar_append", headers |-> P.headers, all_orders |-> P.all_orders,
                    archived_orders |-> archive,
                    completed_orders |-> SubSeq(r.archive, Len(archive) + 1, Len(r.archive)),
                    rows_to_write |-> r.orders, ret |-> r.ret, rule |-> 0,
                    budget |-> IF ok THEN P.budget ELSE P.budget - 1]
          IN /\ ok \/ P.budget > 0
             /\ IF ~ok THEN ArRaise(w, L)
                ELSE IF r.outcome = "IndexError" THEN ArReturn(w, L, "raised", "IndexError")
                ELSE IF r.outcome # "archived" THEN ArReturn(w, L, r.ret, r.outcome)
                ELSE /\ procs' = [procs EXCEPT ![w] = L]
                     /\ last' = Between
    /\ UNCHANGED <<orders, config, mkt, erp, cursor, archive, header>>

(* sheet_operations.py:73-74: Archive.append_rows *)
ArAppend(w) ==
    /\ procs[w].pc = "ar_append"
    /\ \E ok \in BOOLEAN :
          /\ ok \/ procs[w].budget > 0
          /\ IF ok THEN /\ archive' = archive \o procs[w].completed_orders
                        /\ procs' = [procs EXCEPT ![w].pc = "ar_archive_rule", ![w].rule = 1]
                        /\ last' = Between
             ELSE /\ archive' = archive
                  /\ ArRaise(w, procs[w])
    /\ UNCHANGED <<orders, config, mkt, erp, cursor, header>>

CheckboxRanges == 3   \* the checkbox rule is set on columns A, I and J

(* sheet_operations.py:78-82: set_data_validation_for_cell_range on one    *)
(* column of the rows appended to the Archive sheet                        *)
ArArchiveRule(w) ==
    /\ procs[w].pc = "ar_archive_rule"
    /\ \E ok \in BOOLEAN :
          /\ ok \/ procs[w].budget > 0
          /\ IF ok THEN /\ procs' = [procs EXCEPT
                                       ![w].pc = IF procs[w].rule = CheckboxRanges
                                                 THEN "ar_clear" ELSE @,
                                       ![w].rule = @ + 1]
                        /\ last' = Between
             ELSE ArRaise(w, procs[w])
    /\ UNCHANGED <<orders, config, mkt, erp, cursor, archive, header>>

(* sheet_operations.py:89: Orders.clear; the header row goes too *)
ArClear(w) ==
    /\ procs[w].pc = "ar_clear"
    /\ \E ok \in BOOLEAN :
          /\ ok \/ procs[w].budget > 0
          /\ IF ok THEN /\ orders' = <<>>
                        /\ header' = <<>>
                        /\ procs' = [procs EXCEPT ![w].pc = "ar_update"]
                        /\ last' = Between
             ELSE /\ UNCHANGED <<orders, header>>
                  /\ ArRaise(w, procs[w])
    /\ UNCHANGED <<config, mkt, erp, cursor, archive>>

(* sheet_operations.py:92-94: Orders.update writes the header row and the  *)
(* active rows from cell A1 on                                             *)
ArUpdate(w) ==
    /\ procs[w].pc = "ar_update"
    /\ \E ok \in BOOLEAN :
          /\ ok \/ procs[w].budget > 0
          /\ IF ok
             THEN /\ LET rows == procs[w].rows_to_write
                     IN orders' = rows \o (IF Len(orders) > Len(rows)
                                           THEN SubSeq(orders, Len(rows) + 1, Len(orders))
                                           ELSE <<>>)
                  /\ header' = procs[w].headers
                  /\ procs' = [procs EXCEPT ![w].pc = "ar_orders_rule", ![w].rule = 1]
                  /\ last' = Between
             ELSE /\ UNCHANGED <<orders, header>>
                  /\ ArRaise(w, procs[w])
    /\ UNCHANGED <<config, mkt, erp, cursor, archive>>

(* sheet_operations.py:97-102: set_data_validation_for_cell_range on one   *)
(* column of the rows written back; after the third the run returns the    *)
(* two counts                                                              *)
ArOrdersRule(w) ==
    /\ procs[w].pc = "ar_orders_rule"
    /\ \E ok \in BOOLEAN :
          /\ ok \/ procs[w].budget > 0
          /\ IF ~ok THEN ArRaise(w, procs[w])
             ELSE IF procs[w].rule = CheckboxRanges
             THEN ArReturn(w, procs[w], procs[w].ret, "archived")
             ELSE /\ procs' = [procs EXCEPT ![w].rule = @ + 1]
                  /\ last' = Between
    /\ UNCHANGED <<orders, config, mkt, erp, cursor, archive, header>>

(* The steps of a run that has read the Orders sheet *)
ArchiveOrders(w) ==
    \/ ArArchiveRead(w) \/ ArAppend(w) \/ ArArchiveRule(w)
    \/ ArClear(w) \/ ArUpdate(w) \/ ArOrdersRule(w)

(* Runs of archive_orders one after the other.  The Orders sheet starts    *)
(* with its header row, or as an earlier run that raised after its clear   *)
(* left it for the fetch that came next: the first row appended is row 1.  *)
MaxArchived == 4      \* rows of the Archive sheet beyond which no run is started

InitArch ==
    /\ orders \in ArchTables
    /\ archive \in {<<>>, <<ArchRow(1, "SHIPPED")>>}
    /\ mkt = [i \in MIds |-> MktOrder("laptop")]
    /\ config = <<FreeRow>>
    /\ erp = <<>>
    /\ cursor = 0
    /\ last = Between
    /\ procs = Idle
    /\ header \in {sheet_header, RowAsHeader(ArchRow(1, "NEW"))}

NextArch ==
    \/ Len(archive) <= MaxArchived /\ ArRead("w1", MaxDev)
    \/ ArchiveOrders("w1")

SpecArch == InitArch /\ [][NextArch]_vars

---------------------------------------------------------------------------
(* Reconciling tracked pairs with the ERP *)
Trackings == {"None", "", "UPS1"}        \* deliveryPackageId: null, empty, a number
MaxTracked == 2                          \* ERP orders at the start of the reconcile model

(* Occupied slots of the config table, as indices of config data rows *)
Occupied(cfg) == {q \in 1..Len(cfg) : cfg[q].ref # 0 /\ cfg[q].ids # 0}

(* IdoSellAPI.get_order_tracking_id; ok: get_order answers 200 *)
get_order_tracking_id(e, order_id, ok) ==
    IF ~ok THEN [raised |-> TRUE, tracking_number |-> "None", is_finished |-> "None"]
    ELSE LET tracking_number == e[order_id].tracking
         IN IF tracking_number # "None"
            THEN [raised |-> FALSE, tracking_number |-> tracking_number,
                  is_finished |-> IF e[order_id].status = "finished" THEN "True" ELSE "False"]
            ELSE [raised |-> FALSE, tracking_number |-> "None", is_finished |-> "None"]

(* The next config data row after row q that holds a pair (0: none): the   *)
(* loop of process_orders skips the rows with an empty cell                *)
NextPair(cfg, q) ==
    LET later == {p \in Occupied(cfg) : p > q}
    IN IF later = {} THEN 0 ELSE CHOOSE p \in later : \A x \in later : p <= x

(* Integration.process_orders, main.py:284-349.  budget: the failing       *)
(* answers the run may still get; pass: the run is the second half of      *)
(* api_update_and_process; seen: what the run observes of the pair at hand *)
PoStart(cfg, budget, pass) ==
    [pc |-> "po_get", config_data |-> cfg, q |-> NextPair(cfg, 0), budget |-> budget,
     pass |-> pass, items |-> <<>>, j |-> 0, seen |-> <<>>, processed_count |-> 0,
     success_count |-> 0,
     failed_count |-> 0, failed_orders |-> <<>>, calls |-> {}, observed |-> <<>>]

PoReturn(w, L, status) ==
    /\ procs' = [procs EXCEPT ![w] = [pc |-> "idle"]]
    /\ last' = IF L.pass THEN Between
               ELSE [op |-> "process_orders",
                     run |-> [status |-> status, processed_count |-> L.processed_count,
                              success_count |-> L.success_count, failed_count |-> L.failed_count,
                              failed_orders |-> L.failed_orders, calls |-> L.calls,
                              observed |-> L.observed],
                     config0 |-> L.config_data]

(* The loop goes on to the next pair, or the run returns *)
PoAdvance(w, L) ==
    IF NextPair(L.config_data, L.q) = 0 THEN PoReturn(w, L, "success")
    ELSE /\ procs' = [procs EXCEPT ![w] = [L EXCEPT !.pc = "po_get",
                                                    !.q = NextPair(L.config_data, L.q)]]
         /\ last' = Between

(* main.py:294: Config.get_all_values *)
PoBegin(w, budget, pass) ==
    /\ LET config_data == ConfigValues(config, cursor)
       IN IF NextPair(config_data, 0) = 0
          THEN PoReturn(w, PoStart(config_data, budget, pass), "success")
          ELSE /\ procs' = [procs EXCEPT ![w] = PoStart(config_data, budget, pass)]
               /\ last' = Between
    /\ UNCHANGED <<orders, config, mkt, erp, cursor, archive, header>>

PoRead(w, budget) == procs[w].pc = "idle" /\ PoBegin(w, budget, FALSE)

(* main.py:318-319: get_order_tracking_id for the pair at hand *)
PoGet(w) ==
    /\ procs[w].pc = "po_get"
    /\ \E ok \in BOOLEAN :
          LET L == procs[w]
              refurbed_id == L.config_data[L.q].ref
              idosell_id  == L.config_data[L.q].ids
              t == get_order_tracking_id(erp, idosell_id, ok)
              seen == [slot |-> L.q, ref |-> refurbed_id, ids |-> idosell_id,
                       tracking_number |-> t.tracking_number, is_finished |-> t.is_finished,
                       status |-> IF ok THEN erp[idosell_id].status ELSE "",
                       tracking |-> IF ok THEN erp[idosell_id].tracking ELSE "None",
                       listed |-> FALSE, mkt_state |-> "", changed |-> TRUE,
                       raised |-> FALSE]
              counted == [L EXCEPT !.processed_count = @ + 1,
                                   !.budget = IF ok THEN @ ELSE @ - 1]
          IN /\ ok \/ L.budget > 0
             /\ IF t.raised THEN PoReturn(w, counted, "error")
                ELSE IF t.is_finished = "True"
                THEN /\ procs' = [procs EXCEPT ![w] = [counted EXCEPT !.pc = "po_list",
                                                                     !.seen = seen]]
                     /\ last' = Between
                ELSE PoAdvance(w, [counted EXCEPT !.failed_count = @ + 1,
                                                  !.failed_orders = Append(@, idosell_id),
                                                  !.observed = Append(@, seen)])
    /\ UNCHANGED <<orders, config, mkt, erp, cursor, archive, header>>

(* main.py:322: list_orders_items for the order of the pair; a request    *)
(* that raises ends the run with status error                              *)
PoList(w) ==
    /\ procs[w].pc = "po_list"
    /\ \E answer \in {"ok", "http_error", "raise"} :
          LET L == procs[w]
              ok == answer = "ok"
              items == list_orders_items(mkt, {L.seen.ref}, ok)
              L2 == [L EXCEPT !.budget = IF ok THEN @ ELSE @ - 1,
                              !.seen = [@ EXCEPT !.listed = ok, !.mkt_state = mkt[L.seen.ref].state,
                                                 !.raised = answer = "raise"]]
          IN /\ ok \/ L.budget > 0
             /\ IF answer = "raise"
                THEN PoReturn(w, [L2 EXCEPT !.observed = Append(@, L2.seen)], "error")
                ELSE IF items = <<>>
                THEN PoAdvance(w, [L2 EXCEPT !.success_count = @ + 1,
                                             !.observed = Append(@, L2.seen)])
                ELSE /\ procs' = [procs EXCEPT ![w] = [L2 EXCEPT !.pc = "po_change",
                                                                !.items = items, !.j = 1]]
                     /\ last' = Between
    /\ UNCHANGED <<orders, config, mkt, erp, cursor, archive, header>>

(* main.py:323-329: change_state for one listed item; a non-200 answer is  *)
(* counted as a failure, a request that raises ends the run with status    *)
(* error; after the last item the pair is counted as a success             *)
PoChange(w) ==
    /\ procs[w].pc = "po_change"
    /\ \E answer \in {"ok", "http_error", "raise"} :
          LET L == procs[w]
              item == L.items[L.j]
              L2 == [L EXCEPT
                       !.budget = IF answer = "ok" THEN @ ELSE @ - 1,
                       !.calls = @ \cup {[item |-> item, state |-> "SHIPPED",
                                          url |-> change_state_url(L.seen.tracking_number)]},
                       !.failed_count = IF answer = "http_error" THEN @ + 1 ELSE @,
                       !.seen = [@ EXCEPT !.changed = @ /\ answer = "ok",
                                          !.raised = answer = "raise"],
                       !.j = @ + 1]
          IN /\ answer = "ok" \/ L.budget > 0
             /\ mkt' = IF answer = "ok" THEN SetItemState(mkt, item, "SHIPPED") ELSE mkt
             /\ IF answer = "raise"
                THEN PoReturn(w, [L2 EXCEPT !.observed = Append(@, L2.seen)], "error")
                ELSE IF L.j < Len(L.items)
                THEN /\ procs' = [procs EXCEPT ![w] = L2]
                     /\ last' = Between
                ELSE PoAdvance(w, [L2 EXCEPT !.success_count = @ + 1,
                                             !.observed = Append(@, L2.seen)])
    /\ UNCHANGED <<orders, config, erp, cursor, archive, header>>

Po(w) == PoGet(w) \/ PoList(w) \/ PoChange(w)

(* IdoSellAPI.process_cancelled, idosell.py:498-615 *)
id_col == 19          \* header.index("ID") + 1
r_state_col == 2      \* header.index("r_state") + 1

(* Orders.clear() of an archive_orders run has emptied the sheet, the      *)
(* header row included, and nothing was written since                      *)
Cleared == header = <<>>

(* The loop that fills refurbed_id_to_row raises IndexError at a row of    *)
(* id_col - 1 cells: the guard lets it through, row[id_col - 1] is not     *)
(* there                                                                   *)
ShortIdRow(orders_data) ==
    \E r \in 1..Len(orders_data) :
        orders_data[r].len >= id_col - 1 /\ orders_data[r].len < id_col

refurbed_id_to_row(data, ref) ==
    LET rows == {r \in 1..Len(data) : data[r].len >= id_col - 1 /\ data[r].ID = ref /\ ref # 0}
    IN IF rows = {} THEN 0 ELSE (CHOOSE r \in rows : \A x \in rows : x <= r) + 1

FirstSlotOf(cfg, ref) ==
    LET slots == {q \in 1..Len(cfg) : cfg[q].ref = ref}
    IN IF slots = {} THEN 0 ELSE CHOOSE q \in slots : \A x \in slots : q <= x

(* worksheet.batch_update of state cells: updates is a sequence of         *)
(* [row, state] with row the sheet row; a later write to a cell wins, and  *)
(* a write below the last row makes the sheet that long                    *)
BatchState(data, updates) ==
    LET below == {updates[k].row - 1 : k \in 1..Len(updates)} \ (1..Len(data))
        n == IF below = {} THEN Len(data) ELSE CHOOSE r \in below : \A x \in below : x <= r
    IN [r \in 1..n |->
          LET ks  == {k \in 1..Len(updates) : updates[k].row = r + 1}
              row == IF r <= Len(data) THEN data[r] ELSE EmptyRow
          IN IF ks = {} THEN row
             ELSE [row EXCEPT !.r_state = updates[CHOOSE k \in ks : \A x \in ks : x <= k].state,
                              !.len = IF @ < r_state_col THEN r_state_col ELSE @]]

(* worksheet.batch_update that empties columns D:E of config data rows qs *)
ClearPairs(cfg, qs) ==
    BatchDE(cfg, [k \in 1..Cardinality(qs) |-> [row |-> AscSeq(qs)[k] + 1, ref |-> 0, ids |-> 0]])

NoCounts == [checked_count |-> 0, updated_count |-> 0, removed_count |-> 0]

PcReturn(w, L, raised) ==
    /\ procs' = [procs EXCEPT ![w] = [pc |-> "idle"]]
    /\ last' = [op |-> "process_cancelled",
                run |-> [raised |-> raised, counts |-> L.counts, answered |-> L.answered,
                         status |-> L.status],
                orders0 |-> L.orders_data, config0 |-> L.config_data]

(* idosell.py:510: Config.get_all_values *)
PcRead(w, budget) ==
    /\ procs[w].pc = "idle"
    /\ procs' = [procs EXCEPT ![w] =
          [pc |-> "pc_orders_read", config_data |-> ConfigValues(config, cursor),
           orders_data |-> <<>>, q |-> 0, budget |-> budget, answered |-> {}, status |-> <<>>,
           counts |-> NoCounts, batch_update |-> <<>>, config_batch_update |-> {}]]
    /\ last' = Between
    /\ UNCHANGED <<orders, config, mkt, erp, cursor, archive, header>>

(* The loop over the pairs is over: the writes, when there is one to make *)
PcWrites(w, L) ==
    IF L.batch_update = <<>> THEN PcReturn(w, L, FALSE)
    ELSE /\ procs' = [procs EXCEPT ![w] = [L EXCEPT !.pc = "pc_orders_write"]]
         /\ last' = Between

(* idosell.py:511-540: Orders.get_all_values, the row numbers and the      *)
(* pairs; orders_data[0] raises IndexError on a sheet without any row and  *)
(* header.index raises ValueError on a header row without r_state or ID    *)
PcOrdersRead(w) ==
    /\ procs[w].pc = "pc_orders_read"
    /\ LET L == [procs[w] EXCEPT !.orders_data = orders, !.pc = "pc_get",
                                 !.q = NextPair(procs[w].config_data, 0)]
       IN IF Cleared \/ ~HasColumn(header, "r_state") \/ ~HasColumn(header, "ID")
             \/ ShortIdRow(orders)
          THEN PcReturn(w, L, TRUE)
          ELSE IF L.q = 0 THEN PcWrites(w, L)
          ELSE /\ procs' = [procs EXCEPT ![w] = L]
               /\ last' = Between
    /\ UNCHANGED <<orders, config, mkt, erp, cursor, archive, header>>

(* idosell.py:551-597: get_order for the pair at hand; a request that      *)
(* fails is logged and the loop goes on                                    *)
PcGet(w) ==
    /\ procs[w].pc = "pc_get"
    /\ \E ok \in BOOLEAN :
          LET L == procs[w]
              cfg == L.config_data
              q == L.q
              row_num == refurbed_id_to_row(L.orders_data, cfg[q].ref)
              canceled == ok /\ erp[cfg[q].ids].status = "canceled" /\ row_num # 0
              L2 == [L EXCEPT
                       !.budget = IF ok THEN @ ELSE @ - 1,
                       !.q = NextPair(cfg, q),
                       !.answered = IF ok THEN @ \cup {q} ELSE @,
                       !.status = IF ok THEN [x \in DOMAIN @ \cup {q} |->
                                                IF x = q THEN erp[cfg[q].ids].status ELSE @[x]]
                                  ELSE @,
                       !.counts = [checked_count |-> @.checked_count + 1,
                                   updated_count |-> @.updated_count + IF canceled THEN 1 ELSE 0,
                                   removed_count |-> @.removed_count + IF canceled THEN 1 ELSE 0],
                       !.batch_update = IF canceled
                                        THEN Append(@, [row |-> row_num, state |-> "CANCELLED"])
                                        ELSE @,
                       !.config_batch_update = IF canceled
                                               THEN @ \cup {FirstSlotOf(cfg, cfg[q].ref)}
                                               ELSE @]
          IN /\ ok \/ L.budget > 0
             /\ IF L2.q = 0 THEN PcWrites(w, L2)
                ELSE /\ procs' = [procs EXCEPT ![w] = L2]
                     /\ last' = Between
    /\ UNCHANGED <<orders, config, mkt, erp, cursor, archive, header>>

(* idosell.py:599-601: Orders.batch_update *)
PcOrdersWrite(w) ==
    /\ procs[w].pc = "pc_orders_write"
    /\ \E ok \in BOOLEAN :
          /\ ok \/ procs[w].budget > 0
          /\ IF ok
             THEN /\ orders' = BatchState(orders, procs[w].batch_update)
                  /\ header' = HeaderAfterWrite(header, r_state_col)
                  /\ procs' = [procs EXCEPT ![w].pc = "pc_config_write"]
                  /\ last' = Between
             ELSE /\ UNCHANGED <<orders, header>>
                  /\ PcReturn(w, procs[w], TRUE)
    /\ UNCHANGED <<config, mkt, erp, cursor, archive>>

(* idosell.py:606-608: Config.batch_update *)
PcConfigWrite(w) ==
    /\ procs[w].pc = "pc_config_write"
    /\ \E ok \in BOOLEAN :
          /\ ok \/ procs[w].budget > 0
          /\ config' = IF ok THEN ClearPairs(config, procs[w].config_batch_update) ELSE config
          /\ PcReturn(w, procs[w], ~ok)
    /\ UNCHANGED <<orders, mkt, erp, cursor, archive, header>>

Pc(w) == PcOrdersRead(w) \/ PcGet(w) \/ PcOrdersWrite(w) \/ PcConfigWrite(w)

(* The warehouse packs, ships or cancels an ERP order *)
ErpProgress ==
    \E k \in 1..Len(erp), st \in {"packed", "finished", "canceled"}, t \in Trackings :
        /\ erp[k].status \notin {"finished", "canceled"}
        /\ st = "canceled" => t = erp[k].tracking
        /\ st = "packed" => erp[k].status # "packed" /\ t = "UPS1"
        /\ erp' = [erp EXCEPT ![k].status = st, ![k].tracking = t]
        /\ last' = Between
        /\ UNCHANGED <<orders, config, mkt, cursor, procs, archive, header>>

(* The states the reconciler starts from: the Orders sheet after the       *)
(* operator ticked the rows and entered kit keys (different keys as far as *)
(* there are), followed by a push run with at most MaxDev failing answers  *)
(* and a second push run without failures, no other run in between         *)
RecShapes == {"laptop", "with_gift"}

SheetsOf(shapes) ==
    {[orders |-> [r \in 1..Len(ids) |-> [FetchedRow(ids[r], m[ids[r]])
                                            EXCEPT !.checkbox = "TRUE",
                                                   !.id_zestawu = r % (MaxKit + 1)]],
      config |-> [r \in 1..n |-> FreeRow],
      mkt |-> m, erp |-> <<>>] :
        m \in {mm \in [MIds -> {MktOrder(sh) : sh \in shapes}] :
                   Cardinality({i \in MIds : mm[i].shape # "laptop"}) <= MaxSpecial},
        ids \in RowSeqs, n \in 1..MaxFree}

RecBase == SheetsOf(RecShapes)

AfterPush(st, env) ==
    LET r == ids_push_all(st.orders, st.config, 0, st.mkt, st.erp, env)
    IN [orders |-> r.orders, config |-> r.config, mkt |-> r.mkt, erp |-> r.erp]

InitRec ==
    \E b \in RecBase : \E env1 \in PushEnvs(b.orders) :
        LET s1 == AfterPush(b, env1) IN
            LET s2 == AfterPush(s1, DefaultEnv) IN
            /\ Len(s2.erp) \in 1..MaxTracked
            /\ orders = s2.orders
            /\ config = s2.config
            /\ mkt = s2.mkt
            /\ erp = s2.erp
            /\ cursor = 0
            /\ last = Between
            /\ procs = Idle
            /\ header = sheet_header
            /\ archive = <<>>

(* The completion pass, the warehouse and the customer beside it *)
NextRec ==
    \/ PoRead("w1", MaxDev) \/ Po("w1")
    \/ ErpProgress \/ MktCancel

SpecRec == InitRec /\ [][NextRec]_vars

(* Cancellation passes with an archive_orders run beside them              *)
(* (SheetOperations is used from outside the service, nothing serialises   *)
(* it with the handlers).  The sheet may end with a row that is filled up  *)
(* to the column before the ID column.                                     *)
RowWithoutId == [EmptyRow EXCEPT !.len = id_col - 1, !.checkbox = "FALSE", !.r_state = "NEW"]

InitSweep ==
    \E b \in RecBase : \E env1 \in PushEnvs(b.orders) : \E more \in {<<>>, <<RowWithoutId>>} :
        LET s1 == AfterPush(b, env1) IN
            LET s2 == AfterPush(s1, DefaultEnv) IN
            /\ Len(s2.erp) \in 1..MaxTracked
            /\ orders = s2.orders \o more
            /\ config = s2.config
            /\ mkt = s2.mkt
            /\ erp = s2.erp
            /\ cursor = 0
            /\ last = Between
            /\ procs = Idle
            /\ header = sheet_header
            /\ archive = <<>>

(* The warehouse cancels an ERP order *)
ErpCancel ==
    \E k \in 1..Len(erp) :
        /\ erp[k].status \notin {"finished", "canceled"}
        /\ erp' = [erp EXCEPT ![k].status = "canceled"]
        /\ last' = Between
        /\ UNCHANGED <<orders, config, mkt, cursor, procs, archive, header>>

(* A cancellation pass whose calls all succeed, archive_orders beside it *)
NextSweep ==
    \/ PcRead("w1", 0) \/ Pc("w1")
    \/ ArRead("w2", 0) \/ ArchiveOrders("w2")
    \/ ErpCancel

SpecSweep == InitSweep /\ [][NextSweep]_vars

---------------------------------------------------------------------------
(* Synchronising the sheets with the Marketplace's order states *)
(* RefurbedAPI.update_order_states: the row of an order is the last row    *)
(* that carries its id                                                     *)
order_rows(all_rows, order_id) ==
    LET rows == {r \in 1..Len(all_rows) :
                    all_rows[r].len >= id_col /\ all_rows[r].ID = order_id /\ order_id # 0}
    IN IF rows = {} THEN 0 ELSE (CHOOSE r \in rows : \A x \in rows : x <= r) + 1

(* refurbed.py:452-466: updates, one for every listed order that has a row *)
update_order_states(all_rows, all_orders) ==
    LET found == SelectSeq(all_orders, LAMBDA o : order_rows(all_rows, o.id) # 0)
    IN [k \in 1..Len(found) |-> [row |-> order_rows(all_rows, found[k].id),
                                 state |-> found[k].state]]

(* RefurbedAPI.update_states, refurbed.py:477-569.  The ids of the sheet   *)
(* are listed in batches of BatchSize; failing is the batch whose list     *)
(* call is answered with a status other than 200 (0: none).                *)
BatchSize == 100

SheetOrderIds(data) ==
    LET rows == SelectSeq([r \in 1..Len(data) |-> r],
                          LAMBDA r : data[r].len > 18 /\ data[r].ID # 0)
    IN [k \in 1..Len(rows) |-> data[rows[k]].ID]

Batches(order_ids) == (Len(order_ids) + BatchSize - 1) \div BatchSize

Chunk(order_ids, b) ==
    {order_ids[k] : k \in ((b - 1) * BatchSize + 1)..
                          (IF b * BatchSize < Len(order_ids) THEN b * BatchSize ELSE Len(order_ids))}

(* The answer to the list call of batch b: the orders as the Marketplace   *)
(* holds them, greatest id first                                           *)
BatchOrders(m, order_ids, b) ==
    LET ids == payload_selected(m, Chunk(order_ids, b))
    IN [k \in 1..Len(ids) |-> [id |-> ids[k], state |-> m[ids[k]].state]]

(* all_orders after the batches 1..n *)
RECURSIVE FetchedUpTo(_, _, _)
FetchedUpTo(m, order_ids, n) ==
    IF n = 0 THEN <<>> ELSE FetchedUpTo(m, order_ids, n - 1) \o BatchOrders(m, order_ids, n)

(* The list request of one batch that goes on with what it has when the    *)
(* request fails                                                           *)
list_batch_keep_fetched(all_orders, batch_orders, ok) ==
    [raised |-> FALSE, all_orders |-> IF ok THEN all_orders \o batch_orders ELSE all_orders]

(* refurbed.py:516-526: the list request of one batch; a status other than *)
(* 200 raises                                                              *)
list_batch(all_orders, batch_orders, ok) ==
    IF ~ok THEN [raised |-> TRUE, all_orders |-> <<>>]
    ELSE [raised |-> FALSE, all_orders |-> all_orders \o batch_orders]

(* refurbed.py:509-526: the list requests of the batches from b on, with   *)
(* no change on the Marketplace between them                               *)
RECURSIVE ListFrom(_, _, _, _, _)
ListFrom(m, order_ids, b, failing, all_orders) ==
    IF b > Batches(order_ids) THEN [raised |-> FALSE, all_orders |-> all_orders]
    ELSE LET f == list_batch(all_orders, BatchOrders(m, order_ids, b), b # failing)
         IN IF f.raised THEN f ELSE ListFrom(m, order_ids, b + 1, failing, f.all_orders)

list_batches(m, order_ids, failing) == ListFrom(m, order_ids, 1, failing, <<>>)

(* refurbed.py:534-562: the config rows to empty, from the Config sheet    *)
(* read at the start                                                       *)
shipped_slots(config_rows, all_orders) ==
    {FirstSlotOf(config_rows, all_orders[k].id) :
        k \in {j \in 1..Len(all_orders) : all_orders[j].state = "SHIPPED"}} \ {0}

(* A run of update_states on its own, or as the first half of              *)
(* api_update_and_process (pass): then process_orders follows, also when   *)
(* update_states raised (main.py:647-673)                                  *)
UsReturn(w, L, ret, updated) ==
    /\ procs' = [procs EXCEPT ![w] = IF L.pass THEN [pc |-> "po_read", budget |-> L.budget]
                                     ELSE [pc |-> "idle"]]
    /\ last' = IF L.pass THEN Between
               ELSE [op |-> "update_states",
                     run |-> [ret |-> ret, reported |-> Range(L.all_orders), updated |-> updated],
                     failing |-> L.failing, orders0 |-> L.all_rows, config0 |-> L.config_rows]

(* refurbed.py:486: Orders.get_all_values *)
UsRead(w, budget, pass) ==
    /\ procs[w].pc = "idle"
    /\ procs' = [procs EXCEPT ![w] =
          [pc |-> "us_config_read", all_rows |-> orders, headers |-> header,
           config_rows |-> <<>>, budget |-> budget, pass |-> pass, failing |-> 0, b |-> 1,
           all_orders |-> <<>>, updates |-> <<>>]]
    /\ last' = Between
    /\ UNCHANGED <<orders, config, mkt, erp, cursor, archive, header>>

(* refurbed.py:487-502: Config.get_all_values, the ids of the sheet;      *)
(* all_rows[0] raises IndexError on a sheet that was read without any row, *)
(* header.index("ID") raises ValueError on a header row without ID         *)
UsConfigRead(w) ==
    /\ procs[w].pc = "us_config_read"
    /\ LET L == [procs[w] EXCEPT !.pc = "us_list",
                                 !.config_rows = ConfigValues(config, cursor)]
       IN IF L.headers = <<>> \/ ~HasColumn(L.headers, "ID") THEN UsReturn(w, L, "raised", 0)
          ELSE IF SheetOrderIds(L.all_rows) = <<>> THEN UsReturn(w, L, "0", 0)
          ELSE /\ procs' = [procs EXCEPT ![w] = L]
               /\ last' = Between
    /\ UNCHANGED <<orders, config, mkt, erp, cursor, archive, header>>

(* refurbed.py:511-526: the list request of batch b *)
UsList(w) ==
    /\ procs[w].pc = "us_list"
    /\ \E ok \in BOOLEAN :
          LET L == procs[w]
              order_ids == SheetOrderIds(L.all_rows)
              f == list_batch(L.all_orders, BatchOrders(mkt, order_ids, L.b), ok)
              L2 == [L EXCEPT !.failing = IF ok THEN @ ELSE L.b, !.all_orders = f.all_orders,
                              !.b = @ + 1,
                              !.budget = IF ok THEN @ ELSE @ - 1]
          IN /\ ok \/ L.budget > 0
             /\ IF f.raised THEN UsReturn(w, L2, "raised", 0)
                ELSE /\ procs' = [procs EXCEPT ![w] =
                           [L2 EXCEPT !.pc = IF L.b < Batches(order_ids) THEN "us_list"
                                             ELSE "us_sheet_read"]]
                     /\ last' = Between
    /\ UNCHANGED <<orders, config, mkt, erp, cursor, archive, header>>

(* After the Orders sheet: the Config write, when there is a row to empty *)
UsConfig(w, L) ==
    IF shipped_slots(L.config_rows, L.all_orders) = {}
    THEN UsReturn(w, L, "updated", Len(L.updates))
    ELSE /\ procs' = [procs EXCEPT ![w] = [L EXCEPT !.pc = "us_config_write"]]
         /\ last' = Between

(* update_order_states, refurbed.py:435-466: Orders.get_all_values.       *)
(* header = all_rows[0] raises IndexError on a sheet read without any row  *)
(* and header.index raises ValueError on a header row without r_state or   *)
(* ID (refurbed.py:438-440); update_states does not catch either, the run  *)
(* raises with nothing written.                                            *)
UsSheetRead(w) ==
    /\ procs[w].pc = "us_sheet_read"
    /\ LET L == [procs[w] EXCEPT !.updates = update_order_states(orders, procs[w].all_orders)]
       IN IF Cleared \/ ~HasColumn(header, "r_state") \/ ~HasColumn(header, "ID")
          THEN UsReturn(w, [L EXCEPT !.updates = <<>>], "raised", 0)
          ELSE IF L.updates = <<>> THEN UsConfig(w, L)
          ELSE /\ procs' = [procs EXCEPT ![w] = [L EXCEPT !.pc = "us_orders_write"]]
               /\ last' = Between
    /\ UNCHANGED <<orders, config, mkt, erp, cursor, archive, header>>

(* refurbed.py:468-472: Orders.batch_update *)
UsOrdersWrite(w) ==
    /\ procs[w].pc = "us_orders_write"
    /\ \E ok \in BOOLEAN :
          /\ ok \/ procs[w].budget > 0
          /\ IF ok
             THEN /\ orders' = BatchState(orders, procs[w].updates)
                  /\ header' = HeaderAfterWrite(header, r_state_col)
                  /\ UsConfig(w, procs[w])
             ELSE /\ UNCHANGED <<orders, header>>
                  /\ UsReturn(w, procs[w], "raised", 0)
    /\ UNCHANGED <<config, mkt, erp, cursor, archive>>

(* refurbed.py:565-567: Config.batch_update *)
UsConfigWrite(w) ==
    /\ procs[w].pc = "us_config_write"
    /\ \E ok \in BOOLEAN :
          LET L == procs[w]
          IN /\ ok \/ L.budget > 0
             /\ config' = IF ok THEN ClearPairs(config, shipped_slots(L.config_rows, L.all_orders))
                          ELSE config
             /\ UsReturn(w, L, IF ok THEN "updated" ELSE "raised", IF ok THEN Len(L.updates) ELSE 0)
    /\ UNCHANGED <<orders, mkt, erp, cursor, archive, header>>

Us(w) ==
    \/ UsConfigRead(w) \/ UsList(w) \/ UsSheetRead(w)
    \/ UsOrdersWrite(w) \/ UsConfigWrite(w)

(* The orders whose state moves on the Marketplace without a call of the   *)
(* program: the first order of the first batch and the first of the second *)
BatchIds == {1, BatchSize + 1}

(* An order is shipped on the Marketplace (the merchant's own console, or  *)
(* a completion pass of another deployment)                                *)
MktShip ==
    \E i \in BatchIds \cap DOMAIN mkt :
        /\ mkt[i].state \in {"NEW", "ACCEPTED"}
        /\ mkt' = SetOrderState(mkt, i, "SHIPPED")
        /\ last' = Between
        /\ UNCHANGED <<orders, config, erp, cursor, procs, archive, header>>

(* One handler at a time, the warehouse and the customer in between *)
(* The state sync, and completion passes whose calls all succeed *)
NextSync ==
    \/ UsRead("w1", MaxDev, FALSE) \/ Us("w1")
    \/ PoRead("w1", 0) \/ Po("w1")
    \/ ErpProgress

SpecSync == InitRec /\ [][NextSync]_vars

(* Cancellation passes and state syncs in turn; orders are shipped on the   *)
(* Marketplace in between                                                  *)
NextCancel ==
    \/ PcRead("w1", MaxDev) \/ Pc("w1")
    \/ UsRead("w1", MaxDev, FALSE) \/ Us("w1")
    \/ ErpProgress \/ MktCancel \/ MktShip

(* The sheets after one push run in which every call succeeded *)
InitCancel ==
    \E b \in RecBase :
        LET s1 == AfterPush(b, DefaultEnv) IN
            /\ Len(s1.erp) \in 1..MaxTracked
            /\ orders = s1.orders
            /\ config = s1.config
            /\ mkt = s1.mkt
            /\ erp = s1.erp
            /\ cursor = 0
            /\ last = Between
            /\ procs = Idle
            /\ header = sheet_header
            /\ archive = <<>>

SpecCancel == InitCancel /\ [][NextCancel]_vars

---------------------------------------------------------------------------
(* The state sync on a sheet with one row more than a batch holds: the     *)
(* rows of the orders 1..BatchSize+1, in this order, or with a second row  *)
(* of order 1 at the end (its id is then in both batches).                 *)
InitBatch ==
    /\ mkt = [i \in 1..(BatchSize + 1) |-> MktOrder("laptop")]
    /\ \E final \in {1, BatchSize + 1} :
          orders = [r \in 1..(BatchSize + 1) |->
                       IF r <= BatchSize THEN FetchedRow(r, mkt[r]) ELSE FetchedRow(final, mkt[final])]
    /\ \E tracked \in SUBSET BatchIds :
          config = [q \in 1..Cardinality(tracked) |->
                       [ref |-> AscSeq(tracked)[q], ids |-> q, other |-> TRUE]]
    /\ erp = <<>>
    /\ cursor = 0
    /\ last = Between
    /\ procs = Idle
    /\ header = sheet_header
    /\ archive = <<>>

NextBatch == UsRead("w1", MaxDev, FALSE) \/ Us("w1") \/ MktShip

SpecBatch == InitBatch /\ [][NextBatch]_vars

---------------------------------------------------------------------------
(* api_update_and_process: one state sync followed by one completion pass, *)
(* the second also when the first raised.  The runs looked at are those in *)
(* which every call of every pass succeeds, and passes keep taking place   *)
(* (the scheduler calls the route periodically): a pass that has a step to *)
(* take takes it.                                                          *)
PassRead(w) == procs[w].pc = "po_read" /\ PoBegin(w, procs[w].budget, TRUE)

SyncPassOk == UsRead("w1", 0, TRUE) \/ Us("w1") \/ PassRead("w1") \/ Po("w1")

(* The sheets after one push run in which every call succeeded *)
MaxLive == 1                             \* ERP orders at the start of the repeated passes

InitLive ==
    \E b \in RecBase :
        LET s1 == AfterPush(b, DefaultEnv) IN
            /\ Len(s1.erp) \in 1..MaxLive
            /\ orders = s1.orders
            /\ config = s1.config
            /\ mkt = s1.mkt
            /\ erp = s1.erp
            /\ cursor = 0
            /\ last = Between
            /\ procs = Idle
            /\ header = sheet_header
            /\ archive = <<>>

NextLive == SyncPassOk \/ ErpProgress \/ MktCancel

SpecLive == InitLive /\ [][NextLive]_vars /\ WF_vars(SyncPassOk)

---------------------------------------------------------------------------
(* Push and state sync in turn, no operator in between: the rows are       *)
(* ticked at the start, and pushed orders are shipped on the Marketplace.  Runs do not overlap; of the calls of a push run   *)
(* only the Marketplace ones may fail (the item list, the state change).   *)
InitCycle ==
    \E b \in SheetsOf(Shapes) :
        /\ orders = b.orders
        /\ config = b.config
        /\ mkt = b.mkt
        /\ erp = <<>>
        /\ cursor = 0
        /\ last = Between
        /\ procs = Idle
        /\ header = sheet_header
        /\ archive = <<>>

NextCycle ==
    \/ PushRead("w1", "mkt") \/ Push("w1")
    \/ UsRead("w1", MaxDev, FALSE) \/ Us("w1")
    \/ MktShip

SpecCycle == InitCycle /\ [][NextCycle]_vars

---------------------------------------------------------------------------
(* Two push_all invocations at the same time; every call succeeds.  The   *)
(* rows are ticked at the start.                                           *)
InitConc ==
    \E b \in SheetsOf(Shapes) :
        /\ orders = b.orders
        /\ config = b.config
        /\ mkt = b.mkt
        /\ erp = <<>>
        /\ cursor = 0
        /\ last = Between
        /\ procs = Idle
        /\ header = sheet_header
        /\ archive = <<>>

NextConc ==
    \/ \E w \in Workers : PushRead(w, "ok")
    \/ \E w \in Workers : Push(w)

SpecConc == InitConc /\ [][NextConc]_vars

---------------------------------------------------------------------------
(* The pending-work selector on tables of its own: rows with a checkbox    *)
(* cell and a state cell, and rows without any cell                        *)
MaxTable == 4
SelRow(c, st) == [FetchedRow(1, MktOrder("laptop")) EXCEPT !.checkbox = c, !.r_state = st]
SelRows == {SelRow(c, st) : c \in {"TRUE", "true", "True", "FALSE"}, st \in {"NEW", "ACCEPTED"}}
              \cup {EmptyRow}
Tables == UNION {[1..n -> SelRows] : n \in 0..MaxTable}

SelectPending ==
    /\ last' = [op |-> "get_pending_rows", pending_rows |-> get_pending_rows(orders)]
    /\ UNCHANGED <<orders, config, mkt, erp, cursor, procs, archive, header>>

InitSel ==
    /\ orders \in Tables
    /\ mkt = [i \in MIds |-> MktOrder("laptop")]
    /\ config = <<FreeRow>>
    /\ erp = <<>>
    /\ cursor = 0
    /\ last = Between
    /\ procs = Idle
    /\ header = sheet_header
    /\ archive = <<>>

NextSel == SelectPending

SpecSel == InitSel /\ [][NextSel]_vars

---------------------------------------------------------------------------
(* The config table on its own: slots with either cell filled or empty,    *)
(* the slot selector asked for needed slots, and n created pairs recorded  *)
MaxCfg   == 3      \* config data rows at start
MaxPairs == 2      \* pairs recorded by one update_config call
CfgTables == UNION {[1..n -> [ref : 0..1, ids : 0..1, other : {TRUE}]] : n \in 0..MaxCfg}
CreatedPairs(n) == [i \in 1..n |-> [ref_id |-> i, idosell_id |-> i]]

SelectSlots ==
    \E needed \in 1..MaxPairs :
        /\ last' = [op |-> "get_config_rows", needed |-> needed,
                    empty_rows |-> get_config_rows(needed, ConfigValues(config, cursor))]
        /\ UNCHANGED <<orders, config, mkt, erp, cursor, procs, archive, header>>

(* A run of update_config with n created pairs, about to read the sheet *)
Recording(mode, created_orders) ==
    [PushStart(mode, <<>>, <<>>, {}) EXCEPT !.pc = "cfg_read", !.created_orders = created_orders]

RecordPairs(w) == PushCfgRead(w) \/ PushCfgAppend(w) \/ PushCfgWrite(w)

InitCfg ==
    /\ config \in CfgTables
    /\ orders = <<>>
    /\ mkt = [i \in MIds |-> MktOrder("laptop")]
    /\ erp = <<>>
    /\ cursor = 0
    /\ last = Between
    /\ \E n \in 1..MaxPairs :
          procs = [Idle EXCEPT !["w1"] = Recording("cfg", CreatedPairs(n))]
    /\ archive = <<>>
    /\ header = sheet_header

NextCfg == SelectSlots \/ RecordPairs("w1")

SpecCfg == InitCfg /\ [][NextCfg]_vars

---------------------------------------------------------------------------
(* The row mapper on orders of its own: destination country, tax id of the *)
(* invoice address, item name, offer grade                                 *)
Countries == {"DE", "FI", "PL", "CH", "US", ""}
TaxIds    == {"", "DE811907980"}
ItemNames ==
    {<<"D", "e", "l", "l", " ", "L", "a", "t", "i", "t", "u", "d", "e">>,
     <<"H", "P", " ", "E", "l", "i", "t", "e", "B", "o", "o", "k">>,
     <<"S", "a", "m", "s", "u", "n", "g", " ", "G", "a", "l", "a", "x", "y">>,
     <<"M", "a", "c", "B", "o", "o", "k", " ", "P", "r", "o">>,
     <<"A", "p", "p", "l", "e", " ", "i", "P", "h", "o", "n", "e", " ", "1", "2">>,
     <<"A", "p", "p", "l", "e", " ", "I", "p", "h", "o", "n", "e", " ", "1", "2">>,
     <<"A", "p", "p", "l", "e", " ", "i", "P", "h", "o", "n", "e", "1", "2", " ", "P", "r", "o">>,
     <<"E", "t", "u", "i", " ", "d", "o", " ", "i", "P", "h", "o", "n", "e", "-", "a">>,
     <<"A", "p", "p", "l", "e", " ", "i", "P", "H", "O", "N", "E", " ", "S", "E">>,
     <<"A", "p", "p", "l", "e", " ", "i", "P", "h", "o", "n", "e", "s">>,
     <<"A", "P", "P", "L", "E", " ", "I", "P", "H", "O", "N", "E", " ", "1", "3">>,
     <<>>}
Grades    == {"A", "B", "C", ""}
MapInputs == [country_code : Countries, company_vatin : TaxIds, name : ItemNames,
              has_offer_data : BOOLEAN, offer_grading : Grades]

(* mkt holds the one order the mapper is given *)
MapOrder ==
    LET order == mkt[1]
    IN /\ last' = [op |-> "process_orders", order |-> order,
                   vat |-> vat_value(order.country_code, order.company_vatin, order.name),
                   klasa |-> klasa(order.has_offer_data, order.offer_grading, order.name)]
       /\ UNCHANGED <<orders, config, mkt, erp, cursor, procs, archive, header>>

(* The mapped row goes to the ERP: the product part of the creation request *)
PrepareProduct ==
    /\ last.op = "process_orders"
    /\ last' = [op |-> "prepare_product_details", vat |-> last.vat,
                product |-> prepare_product_details(last.vat)]
    /\ UNCHANGED <<orders, config, mkt, erp, cursor, procs, archive, header>>

InitMap ==
    /\ orders = <<>>
    /\ \E order \in MapInputs : mkt = <<order>>
    /\ config = <<FreeRow>>
    /\ erp = <<>>
    /\ cursor = 0
    /\ last = Between
    /\ procs = Idle
    /\ header = sheet_header
    /\ archive = <<>>

NextMap == MapOrder \/ PrepareProduct

SpecMap == InitMap /\ [][NextMap]_vars

---------------------------------------------------------------------------
(* Two update_config calls at the same time (two push runs, each in its    *)
(* own Integration object, main.py:455-469).  A call reads the Config      *)
(* sheet, chooses its rows from what it read, appends empty rows when it   *)
(* found too few free ones, and writes the pairs; the worksheet calls of   *)
(* the two interleave.                                                     *)
WorkerPairs(w, n) ==
    [i \in 1..n |-> [ref_id     |-> (IF w = "w1" THEN 10 ELSE 20) + i,
                     idosell_id |-> (IF w = "w1" THEN 10 ELSE 20) + i]]

InitRace ==
    /\ config \in CfgTables
    /\ \E n1 \in 1..MaxPairs, n2 \in 1..MaxPairs :
          procs = [w \in Workers |->
                      Recording("ok", WorkerPairs(w, IF w = "w1" THEN n1 ELSE n2))]
    /\ orders = <<>>
    /\ mkt = [i \in MIds |-> MktOrder("laptop")]
    /\ erp = <<>>
    /\ cursor = 0
    /\ last = Between
    /\ archive = <<>>
    /\ header = sheet_header

NextRace == \E w \in Workers : RecordPairs(w)

SpecRace == InitRace /\ [][NextRace]_vars

---------------------------------------------------------------------------
(* Claims about the push *)
Pushed == last.op = "push"
Created(run) == {run.created[j] : j \in 1..Len(run.created)}
CreateCallIds(run) == {c.ref : c \in {d \in run.erpCalls : d.op = "create"}}
HasPair(cfg, ref, ids) == \E q \in 1..Len(cfg) : cfg[q].ref = ref /\ cfg[q].ids = ids

(* C1: a row for which the previous push run completed every step (ERP    *)
(* order created, pair recorded, row ACCEPTED) is neither selected nor     *)
(* submitted to the ERP by a push run that follows it directly.            *)
C1_RerunGuard ==
    Pushed => \A r \in last.prevDone :
                 /\ r \notin Range(last.run.pending)
                 /\ last.orders0[r - 1].ID \notin CreateCallIds(last.run)

C1_Witness ==
    /\ Pushed /\ last.prevDone # {}
    /\ \E r \in 1..Len(orders) : Upper(orders[r].checkbox) = "TRUE" /\ r + 1 \in last.prevDone

(* C3 as claimed: after push_all returns, every created pair is in a slot  *)
(* of the config table.                                                    *)
C3_PairsRecorded_Claimed ==
    (Pushed /\ last.run.ret = "True") =>
        \A c \in Created(last.run) : HasPair(config, c.ref_id, c.idosell_id)

(* C4: the spreadsheet update step writes the ERP id and ACCEPTED into     *)
(* every row whose marketplace id matches a created pair, and changes no   *)
(* other row and no other column; when the step does not write (nothing    *)
(* created, the run aborted, or the worksheet rejects the write) the       *)
(* Orders sheet is as the step found it.                                   *)
C4_UpdateFrame ==
    Pushed =>
        /\ Len(orders) = Len(last.sheet0)
        /\ last.run.sheetStatus = "success" =>
             \A r \in 1..Len(orders) :
                LET before == last.sheet0[r]
                    match  == {c \in Created(last.run) : c.ref_id = before.ID}
                IN IF match # {}
                   THEN /\ \E c \in match : orders[r].idosell_id = c.idosell_id
                        /\ orders[r].r_state = "ACCEPTED"
                        /\ orders[r] = [before EXCEPT !.idosell_id = orders[r].idosell_id,
                                                      !.r_state = "ACCEPTED"]
                   ELSE orders[r] = before
        /\ last.run.sheetStatus # "success" => orders = last.sheet0

C4_Witness ==
    /\ Pushed /\ last.run.sheetStatus = "success"
    /\ \E r \in 1..Len(orders) : orders[r].r_state = "ACCEPTED" /\ last.sheet0[r].r_state = "NEW"
    /\ \E r \in 1..Len(orders) : orders[r] = last.sheet0[r] /\ Upper(orders[r].checkbox) = "TRUE"

(* C5 as claimed: an ACCEPTED call is issued for every item of every order *)
(* created in the run and for no other item.                               *)
C5_AcceptCalls_Claimed ==
    (Pushed /\ last.run.ret = "True") =>
        {c.item : c \in last.run.stateCalls}
            = UNION {Range(ItemsOf(mkt, c.ref_id)) : c \in Created(last.run)}

(* C6: an order whose total differs from its first item's total is         *)
(* rejected by the builder with the error that names the order, and no ERP *)
(* call (bundle lookup, creation) is made for it.                          *)
C6_MultiItemRejected ==
    Pushed =>
        \A j \in 1..Len(last.run.results) :
            LET res == last.run.results[j] IN
            (res.kind # "KeyError" /\ mkt[res.ref].total # mkt[res.ref].items[1]) =>
                /\ res.kind = "more_than_one_item"
                /\ res.order = res.ref
                /\ \A c \in last.run.erpCalls : c.ref # res.ref

C6_Witness ==
    /\ Pushed
    /\ \E j \in 1..Len(last.run.results) : last.run.results[j].kind = "more_than_one_item"
    /\ \E j \in 1..Len(last.run.results) : last.run.results[j].kind = "ok"

(* C7 as claimed: when the ERP order of one pending row fails, every other *)
(* pending row of the run is still submitted, and each that succeeds is    *)
(* recorded as a pair and its row is ACCEPTED.                             *)
C7_FailureIsolated_Claimed ==
    (Pushed /\ last.run.ret = "True"
        /\ \E j \in 1..Len(last.run.results) : last.run.results[j].kind # "ok") =>
        /\ \A r \in Range(last.run.pending) :
              \E j \in 1..Len(last.run.results) : last.run.results[j].ref = last.orders0[r - 1].ID
        /\ \A c \in Created(last.run) :
              /\ HasPair(config, c.ref_id, c.idosell_id)
              /\ \A r \in 1..Len(orders) : orders[r].ID = c.ref_id => orders[r].r_state = "ACCEPTED"

---------------------------------------------------------------------------
(* Claims about fetching *)
Fetched == last.op \in {"fetch_orders", "fetch_missing_orders"}

(* C2 as claimed: after any sequence of fetch_orders / fetch_missing_orders *)
(* runs whose calls all succeeded, no two rows of the Orders sheet carry    *)
(* the same marketplace id, and the id of a row written before the run is   *)
(* unchanged.                                                               *)
C2_UniqueIds_Claimed ==
    last.clean =>
        /\ \A r, q \in 1..Len(orders) : r # q => orders[r].ID # orders[q].ID
        /\ Fetched => \A r \in 1..Len(last.orders0) : orders[r].ID = last.orders0[r].ID

---------------------------------------------------------------------------
(* Claims about the reconciler *)
Cancelled == last.op = "process_cancelled"
Processed == last.op = "process_orders"
Free == [ref |-> 0, ids |-> 0]
(* Columns D:E of config data row q; a row below the last row with a value *)
(* has both cells empty                                                    *)
PairOf(cfg, q) == IF q \in 1..Len(cfg) THEN [ref |-> cfg[q].ref, ids |-> cfg[q].ids] ELSE Free
HasTracking(o) == o.status = "finished" /\ o.tracking \notin {"None", ""}
ShippedCall(it, tracking_number) == [item |-> it, state |-> "SHIPPED", url |-> TrackingUrl(tracking_number)]

(* C8 as claimed: after a cancellation pass that ran to its end, for every *)
(* tracked pair whose ERP order answered with status canceled, the Orders  *)
(* row with the pair's marketplace id is CANCELLED and both cells of the   *)
(* pair's slot are empty.                                                  *)
C8_CancelledCleared_Claimed ==
    (Cancelled /\ ~last.run.raised) =>
        \A q \in last.run.answered :
            last.run.status[q] = "canceled" =>
                /\ \E r \in 1..Len(orders) : /\ orders[r].ID = last.config0[q].ref
                                             /\ orders[r].r_state = "CANCELLED"
                /\ PairOf(config, q) = Free

(* C9 as claimed: for every tracked pair the pass observed whose ERP order *)
(* is finished and has a tracking id, SHIPPED with the tracking URL is     *)
(* requested for every item of the order and the pair's slot is cleared by *)
(* the pass.                                                               *)
C9_ShippedAndCleared_Claimed ==
    Processed =>
        \A j \in 1..Len(last.run.observed) :
            LET o == last.run.observed[j] IN
            HasTracking(o) =>
                /\ \A it \in Range(ItemsOf(mkt, o.ref)) :
                      ShippedCall(it, o.tracking) \in last.run.calls
                /\ PairOf(config, o.slot) = Free

(* C10 as claimed: a tracked pair whose ERP order is finished without a    *)
(* tracking id is not in failed_orders and not counted in failed_count, no *)
(* state change is requested for its order, and its slot is as before.     *)
C10_NoTrackingNotFailure_Claimed ==
    Processed =>
        \A j \in 1..Len(last.run.observed) :
            LET o == last.run.observed[j] IN
            (o.status = "finished" /\ o.tracking = "None") =>
                /\ o.ids \notin Range(last.run.failed_orders)
                /\ Len(last.run.observed) = 1 => last.run.failed_count = 0
                /\ (\A k \in 1..Len(last.run.observed) : last.run.observed[k].ref = o.ref => k = j)
                      => \A c \in last.run.calls : c.item.o # o.ref
                /\ PairOf(config, o.slot) = PairOf(last.config0, o.slot)

---------------------------------------------------------------------------
(* Claims about the state sync *)
Synced == last.op = "update_states"
ReportedShipped(ref) == \E o \in last.run.reported : o.id = ref /\ o.state = "SHIPPED"

(* C11 as claimed: after a state sync that ran to its end, a config slot   *)
(* is empty when its marketplace id belongs to an order reported SHIPPED,  *)
(* and every other slot is as before the sync.                             *)
C11_ShippedSlotsCleared_Claimed ==
    (Synced /\ last.run.ret # "raised") =>
        /\ Len(config) <= Len(last.config0)
        /\ \A q \in 1..Len(last.config0) :
              IF last.config0[q].ref # 0 /\ ReportedShipped(last.config0[q].ref)
              THEN PairOf(config, q) = Free
              ELSE PairOf(config, q) = PairOf(last.config0, q)

(* The run in last is a fetch_orders run whose calls succeeded;            *)
(* last.prev_page is the number of orders that the fetch_orders run        *)
(* directly before it fetched, -1 when there was none, its calls failed,   *)
(* or the Marketplace changed between the list calls of the two runs       *)
FetchedOk == last.op = "fetch_orders" /\ last.api /\ last.sheet = "ok"
ZeroReturned == last.run.fetched = <<>>
FetchUnchanged ==
    /\ last.run.ret = "None"
    /\ cursor = last.cursor0
    /\ Len(orders) = Len(last.orders0)

(* C12: a fetch_orders run whose calls succeed and to which the            *)
(* Marketplace returns zero orders, or which directly follows a            *)
(* fetch_orders run that succeeded and fetched less than a full page,      *)
(* returns normally and leaves the cursor cell and the number of rows of   *)
(* the Orders sheet unchanged.                                             *)
C12_FetchIdempotent ==
    (FetchedOk /\ (ZeroReturned \/ last.prev_page \in 0..(PageLimit - 1))) => FetchUnchanged

C12_Witness ==
    /\ FetchedOk /\ last.prev_page \in 1..(PageLimit - 1)
    /\ Len(orders) >= 2 /\ cursor # 0
    /\ \E i \in MIds : mkt[i].vis /\ mkt[i].state = "NEW"

(* C12 as claimed: the same after any fetch_orders run that succeeded      *)
C12_FetchIdempotent_Claimed ==
    (FetchedOk /\ (ZeroReturned \/ last.prev_page >= 0)) => FetchUnchanged

(* C13: a fetch_orders run beside which no other fetch runs leaves the     *)
(* cursor cell and the sheet as they were when the list call               *)
(* or the row append fails; it changes the cursor cell only in a run that  *)
(* appended rows; and after a run that returned normally with a non-empty  *)
(* page the cursor cell holds the id of the last order fetched, which is   *)
(* the id of the last row of the sheet.                                    *)
C13_CursorAfterAppend ==
    (last.op = "fetch_orders" /\ last.alone) =>
        /\ (~last.api \/ last.sheet = "append_raises") =>
              cursor = last.cursor0 /\ orders = last.orders0
        /\ cursor # last.cursor0 => Len(orders) > Len(last.orders0)
        /\ (last.run.ret = "None" /\ last.run.fetched # <<>>) =>
              /\ cursor = last.run.fetched[Len(last.run.fetched)]
              /\ cursor = orders[Len(orders)].ID

C13_Witness ==
    /\ last.op = "fetch_orders" /\ last.alone /\ last.run.ret = "None"
    /\ last.run.fetched # <<>>
    /\ last.cursor0 # 0 /\ cursor # last.cursor0

(* The orders a recovery scan has to recover: returned by the latest-N     *)
(* list call, id in none of the last LastRows rows, not SHIPPED/CANCELLED  *)
Missing(data, m) ==
    LET from == IF Len(data) > LastRows THEN Len(data) - LastRows + 1 ELSE 1
    IN {i \in Range(payload_all(m, LatestN)) :
           /\ \A r \in from..Len(data) : data[r].ID # i
           /\ m[i].state \notin {"SHIPPED", "CANCELLED"}}

(* The example: ids 1,2,4,5 in the sheet, orders 1..5 returned, order 3 in state st *)
ExampleSheet == [r \in 1..4 |-> FetchedRow(<<1, 2, 4, 5>>[r], MktOrder("laptop"))]
ExampleOrders(st) == [i \in 1..5 |-> [MktOrder("laptop") EXCEPT !.state = IF i = 3 THEN st ELSE "ACCEPTED"]]
ExampleScan(st) == fetch_missing_orders(ExampleSheet, 0, ExampleOrders(st), LatestN, TRUE, "ok")

(* C14: a recovery scan whose calls succeed and beside which no other      *)
(* fetch runs appends, to the sheet as it read it, exactly one row for     *)
(* every order it has to recover and no other row, in ascending order of   *)
(* the ids, and returns the number of rows appended; in the example it     *)
(* appends one row for order 3 when that is NEW and none when it is        *)
(* SHIPPED.                                                                *)
C14_RecoveryScan ==
    (last.op = "fetch_missing_orders" /\ last.alone /\ last.api /\ last.sheet = "ok") =>
        LET old == Len(last.orders0)
            new == Len(orders) - old
        IN /\ SubSeq(orders, 1, old) = last.orders0
           /\ new = Cardinality(Missing(last.orders0, last.m))
           /\ \A r \in (old + 1)..Len(orders) :
                 /\ orders[r].ID \in Missing(last.orders0, last.m)
                 /\ orders[r] = FetchedRow(orders[r].ID, last.m[orders[r].ID])
                 /\ r < Len(orders) => orders[r].ID < orders[r + 1].ID
           /\ last.run.count = new
           /\ last.run.ret = (IF new = 0 THEN "0" ELSE "count")
           /\ ExampleScan("NEW").orders = Append(ExampleSheet, FetchedRow(3, MktOrder("laptop")))
           /\ ExampleScan("NEW").count = 1
           /\ ExampleScan("SHIPPED").orders = ExampleSheet
           /\ ExampleScan("SHIPPED").count = 0

C14_Witness ==
    /\ last.op = "fetch_missing_orders" /\ last.alone /\ last.api /\ last.sheet = "ok"
    /\ Len(last.orders0) >= 1 /\ Len(orders) = Len(last.orders0) + 1
    /\ orders[Len(orders)].ID < orders[1].ID
    /\ \E i \in MIds : mkt[i].vis /\ mkt[i].state = "SHIPPED"

(* C15: a recovery scan does not move the id the next incremental fetch    *)
(* sends as starting_after: get_last_order_id gives the same id right      *)
(* before and right after fetch_missing_orders, rows appended or not.      *)
C15_ScanKeepsStartingAfter_Claimed ==
    (last.op = "fetch_missing_orders" /\ last.alone) =>
        get_last_order_id(orders, cursor) = get_last_order_id(last.orders0, last.cursor0)

(* A Marketplace that lists no order at all *)
NothingListed == [i \in DOMAIN last.m |-> [last.m[i] EXCEPT !.vis = FALSE]]

(* What the caller of the fetch in last gets back, and what it would get   *)
(* back from the same call when the list call succeeds with no orders      *)
Surfaced == IF last.op = "fetch_orders" THEN <<last.run.ret, 0>>
            ELSE <<last.run.ret, last.run.count>>
SurfacedWhenEmpty ==
    IF last.op = "fetch_orders"
    THEN <<fetch_orders(last.orders0, last.cursor0, NothingListed, TRUE, "ok").ret, 0>>
    ELSE LET r == fetch_missing_orders(last.orders0, last.cursor0, NothingListed, LatestN, TRUE, "ok")
         IN <<r.ret, r.count>>
FetchFailed == last.op \in {"fetch_orders", "fetch_missing_orders"} /\ last.alone /\ ~last.api

(* A fetch whose list call failed has written nothing *)
FailedFetchWritesNothing ==
    FetchFailed => orders = last.orders0 /\ cursor = last.cursor0

(* C16 as claimed: a fetch_orders or fetch_missing_orders run whose list   *)
(* call is answered with a non-success status writes no row and no cursor  *)
(* value, and its caller gets an outcome that differs from the outcome of  *)
(* a run that succeeded and found no orders.                               *)
C16_FetchFailureSurfaced_Claimed ==
    /\ FailedFetchWritesNothing
    /\ FetchFailed => Surfaced # SurfacedWhenEmpty

---------------------------------------------------------------------------
(* Claims about re-submission *)
(* The ERP orders of Marketplace order ref now, and whether one existed    *)
(* when the run in last began (the run appends its created orders to erp)  *)
ErpOrdersOf(ref) == {k \in 1..Len(erp) : erp[k].ref = ref}
HadErpOrder(ref) == \E k \in 1..(Len(erp) - Len(last.run.created)) : erp[k].ref = ref
(* The kit key under which the order ref goes to the ERP step: that of the *)
(* last selected row with this id (the rows are put in a dict by id), and  *)
(* whether no other selected order goes there under the same key           *)
KitOf(data, pending_rows, ref) ==
    LET p == CHOOSE p \in Range(pending_rows) :
                 /\ data[p - 1].ID = ref
                 /\ \A q \in Range(pending_rows) : data[q - 1].ID = ref => q <= p
    IN data[p - 1].id_zestawu
OwnKit(data, pending_rows, ref) ==
    \A q \in Range(pending_rows) :
        data[q - 1].ID # ref => KitOf(data, pending_rows, data[q - 1].ID) # KitOf(data, pending_rows, ref)
ResultRefs(run) == {run.results[j].ref : j \in 1..Len(run.results)}
CreatedOk(run, ref) == \E j \in 1..Len(run.results) : run.results[j].ref = ref /\ run.results[j].kind = "ok"

(* C17: a row whose ERP order exists but which is still ticked and NEW     *)
(* when a push run begins (an earlier run stopped between the two) is      *)
(* selected by the run, is handed to the ERP step like any pending row     *)
(* unless another pending order carries its kit key, and when its create   *)
(* call is accepted a second ERP order for its Marketplace id exists.      *)
C17_Resubmission ==
    Pushed =>
        \A r \in 1..Len(last.orders0) :
            LET row == last.orders0[r]
            IN (Upper(row.checkbox) = "TRUE" /\ row.r_state = "NEW" /\ HadErpOrder(row.ID)) =>
                  /\ r + 1 \in Range(last.run.pending)
                  /\ OwnKit(last.orders0, last.run.pending, row.ID)
                       => row.ID \in ResultRefs(last.run)
                  /\ CreatedOk(last.run, row.ID) =>
                         /\ row.ID \in CreateCallIds(last.run)
                         /\ Cardinality(ErpOrdersOf(row.ID)) >= 2

C17_Witness ==
    /\ Pushed
    /\ \E r \in 1..Len(last.orders0) :
          /\ Upper(last.orders0[r].checkbox) = "TRUE" /\ last.orders0[r].r_state = "NEW"
          /\ HadErpOrder(last.orders0[r].ID)
          /\ CreatedOk(last.run, last.orders0[r].ID)
          /\ Cardinality(ErpOrdersOf(last.orders0[r].ID)) >= 2

---------------------------------------------------------------------------
(* Claims about invocations at the same time *)
PastCreate(w) == procs[w].pc \in {"cfg_read", "cfg_append", "cfg_write", "list", "change",
                                  "sheet_read", "sheet_write"}
CreatedRefs(w) == {procs[w].created_orders[j].ref_id : j \in 1..Len(procs[w].created_orders)}

(* The selected row r of worker w is one the ERP step accepts: a single    *)
(* item order, and no other selected order carries its kit key             *)
Submittable(w, r) ==
    LET data == procs[w].data
        row  == data[r - 1]
    IN /\ mkt[row.ID].total = mkt[row.ID].items[1]
       /\ OwnKit(data, procs[w].pending_rows, row.ID)

(* The run that has returned accepted the row r of the sheet it read *)
ReturnedSubmittable(r) ==
    LET row == last.orders0[r - 1]
    IN /\ row.ID \in last.selected
       /\ mkt[row.ID].total = mkt[row.ID].items[1]
       /\ OwnKit(last.orders0, last.run.pending, row.ID)

(* C18: push_all invocations do not look at each other: each one selects   *)
(* the pending rows of the sheet as it read it, creates an ERP order for   *)
(* every selected row the ERP step accepts whatever the other invocation   *)
(* has done (while it runs and when it has returned), and when two         *)
(* invocations have both created an order for one Marketplace id the ERP   *)
(* holds two orders for that id.                                           *)
C18_Uncoordinated ==
    /\ Pushed =>
          \A r \in Range(last.run.pending) :
              ReturnedSubmittable(r) =>
                  \E j \in 1..Len(last.run.created) :
                      last.run.created[j].ref_id = last.orders0[r - 1].ID
    /\ \A w \in Workers :
          /\ procs[w].pc # "idle" => procs[w].pending_rows = get_pending_rows(procs[w].data)
          /\ PastCreate(w) =>
                \A r \in Range(procs[w].pending_rows) :
                    Submittable(w, r) =>
                        \E j \in 1..Len(procs[w].created_orders) :
                            /\ procs[w].created_orders[j].ref_id = procs[w].data[r - 1].ID
                            /\ erp[procs[w].created_orders[j].idosell_id].ref = procs[w].data[r - 1].ID
    /\ \A w, v \in Workers :
          (w # v /\ PastCreate(w) /\ PastCreate(v)) =>
              \A ref \in CreatedRefs(w) \cap CreatedRefs(v) : Cardinality(ErpOrdersOf(ref)) >= 2

C18_Witness ==
    \E w, v \in Workers :
        /\ w # v /\ PastCreate(w) /\ PastCreate(v)
        /\ \E r \in Range(procs[w].pending_rows) \cap Range(procs[v].pending_rows) :
              /\ procs[w].data[r - 1].ID = procs[v].data[r - 1].ID
              /\ procs[w].data[r - 1].ID \in CreatedRefs(w) \cap CreatedRefs(v)
              /\ Cardinality(ErpOrdersOf(procs[w].data[r - 1].ID)) = 2

---------------------------------------------------------------------------
(* Claims about the pending-work selector *)
Selected == last.op = "get_pending_rows"

(* The data rows before the first row without cells *)
BeforeEmpty == {r \in 1..Len(orders) : \A q \in 1..r : orders[q].len # 0}
Qualifies(r) == orders[r].checkbox \in TrueSpellings /\ orders[r].r_state = "NEW"

(* C19: the selector returns exactly the rows before the first row without *)
(* cells whose checkbox cell is TRUE in any letter case and whose state    *)
(* cell is NEW, each once and from top to bottom; no unticked row and no   *)
(* row in another state is returned.                                       *)
C19_SelectorExact ==
    Selected =>
        LET pending_rows == last.pending_rows
        IN /\ \A k \in 1..Len(pending_rows) :
                 /\ pending_rows[k] - 1 \in BeforeEmpty
                 /\ Qualifies(pending_rows[k] - 1)
                 /\ k < Len(pending_rows) => pending_rows[k] < pending_rows[k + 1]
           /\ \A r \in BeforeEmpty : Qualifies(r) => r + 1 \in Range(pending_rows)

C19_Witness ==
    /\ Selected /\ Len(last.pending_rows) = 2
    /\ \E r \in 1..Len(orders) : orders[r].checkbox = "True" /\ r + 1 \in Range(last.pending_rows)
    /\ \E r \in 1..Len(orders) : orders[r].len = 0
    /\ \E r \in 1..Len(orders) : orders[r].checkbox = "FALSE" /\ orders[r].r_state = "NEW"

(* The table of the example: ticked NEW, unticked NEW, ticked ACCEPTED,    *)
(* ticked NEW                                                              *)
ExampleTable == <<SelRow("TRUE", "NEW"), SelRow("FALSE", "NEW"),
                  SelRow("TRUE", "ACCEPTED"), SelRow("TRUE", "NEW")>>

(* C20: the numbers the selector returns are row numbers of the sheet,     *)
(* the header being row 1: a returned number p is at least 2 and names     *)
(* data row p - 1; for the table of the example the result is 2, 5.        *)
C20_SheetRowNumbers ==
    Selected =>
        /\ \A p \in Range(last.pending_rows) :
              p \in 2..(Len(orders) + 1) /\ Qualifies(p - 1)
        /\ orders = ExampleTable => last.pending_rows = <<2, 5>>

C20_Witness == Selected /\ orders = ExampleTable /\ last.pending_rows = <<2, 5>>

(* C20 as claimed: the numbers count the data rows from 1, the header left *)
(* out; for the table of the example the result is 1, 4.                   *)
C20_DataRowNumbers_Claimed ==
    Selected =>
        /\ \A p \in Range(last.pending_rows) :
              p \in 1..Len(orders) /\ Qualifies(p)
        /\ orders = ExampleTable => last.pending_rows = <<1, 4>>

---------------------------------------------------------------------------
(* Claims about the config table *)
FreeSlots(cfg) == {r \in 1..Len(cfg) : cfg[r].ref = 0 /\ cfg[r].ids = 0}
Min(a, b) == IF a <= b THEN a ELSE b

(* C21: asked for needed >= 1 slots, the slot selector answers none-found  *)
(* when no config row has both cells empty; otherwise it answers row       *)
(* numbers of rows with both cells empty only, in ascending order, needed  *)
(* of them when that many exist and all of them when fewer exist.          *)
C21_SlotSelector ==
    last.op = "get_config_rows" =>
        LET res  == last.empty_rows
            free == FreeSlots(config)
        IN /\ res.none <=> free = {}
           /\ res.none => res.rows = <<>>
           /\ \A k \in 1..Len(res.rows) :
                 /\ res.rows[k] - 1 \in free
                 /\ k < Len(res.rows) => res.rows[k] < res.rows[k + 1]
           /\ Len(res.rows) = Min(last.needed, Cardinality(free))

C21_Witness ==
    /\ last.op = "get_config_rows" /\ last.needed = 1
    /\ last.empty_rows.rows = <<3>>
    /\ Cardinality(FreeSlots(config)) = 2
    /\ config[1].ref = 0 /\ config[1].ids # 0

(* C22 as claimed: update_config appends a config row only for a pair that *)
(* does not fit into a free slot: with n pairs and k free slots the table  *)
(* grows by n - k rows when k < n and by none when k >= n.                 *)
C22_SlotReuse_Claimed ==
    (procs["w1"].pc = "list" /\ procs["w1"].cfgRet) =>
        LET k == Cardinality(FreeSlots(procs["w1"].config_data))
            n == Len(procs["w1"].created_orders)
        IN Len(config) - Len(procs["w1"].config_data) = (IF k >= n THEN 0 ELSE n - k)

---------------------------------------------------------------------------
(* Claims about the ERP step of the push *)
PendingOrderIds == {last.orders0[p - 1].ID : p \in Range(last.run.pending)}
PendingKit(ref) == KitOf(last.orders0, last.run.pending, ref)

(* Of the pending orders that carry a kit key, one per key goes to the ERP *)
OnePerKit ==
    Pushed =>
        \A k \in Kits \ {0} :
            (\E ref \in PendingOrderIds : PendingKit(ref) = k) =>
                Cardinality({ref \in PendingOrderIds :
                                PendingKit(ref) = k /\ ref \in ResultRefs(last.run)}) = 1

(* C23 as claimed: in a push run one pending order per kit key goes to the *)
(* ERP, and every pending order whose kit cell is empty goes to the ERP.   *)
C23_KitDedup_Claimed ==
    /\ OnePerKit
    /\ Pushed => \A ref \in PendingOrderIds : PendingKit(ref) = 0 => ref \in ResultRefs(last.run)

(* The VAT cell of the row under which the order ref went to the ERP step *)
PendingVat(ref) ==
    LET p == CHOOSE p \in Range(last.run.pending) :
                 /\ last.orders0[p - 1].ID = ref
                 /\ \A q \in Range(last.run.pending) : last.orders0[q - 1].ID = ref => q <= p
    IN last.orders0[p - 1].vat

(* C24 as claimed: of every ERP order a push run created and set a status  *)
(* for, the status is wait_for_packaging when the VAT cell of the row is   *)
(* -1 and on_order otherwise.                                              *)
C24_LastStatus_Claimed ==
    Pushed =>
        \A c \in Created(last.run) :
            erp[c.idosell_id].status # "new" =>
                erp[c.idosell_id].status =
                    (IF PendingVat(c.ref_id) = "-1" THEN "wait_for_packaging" ELSE "on_order")

(* The same for the orders whose follow-up calls all succeeded *)
LastStatusWhenPaid ==
    Pushed =>
        \A c \in Created(last.run) :
            last.out[c.ref_id] \in {"create_200", "create_207"} =>
                erp[c.idosell_id].status =
                    (IF PendingVat(c.ref_id) = "-1" THEN "wait_for_packaging" ELSE "on_order")

---------------------------------------------------------------------------
(* Claims about the row mapper *)
Mapped == last.op = "process_orders"
(* The name holds the letters i, p, h, o, n, e in a row, each in either case *)
Premium ==
    \E p \in 0..(Len(last.order.name) - 6) :
        \A j \in 1..6 : last.order.name[p + j] \in {<<"i", "p", "h", "o", "n", "e">>[j],
                                                    <<"I", "P", "H", "O", "N", "E">>[j]}

(* C25: the VAT cell of a premium-margin item is -1 whatever the country   *)
(* and the tax id; of another item with a country of the VAT table it is   *)
(* the table value when the order has no tax id (DE 19, FI 25.5, PL 23),   *)
(* and with a tax id 23 for PL and 0 for every other country.              *)
C25_VatPolicy ==
    Mapped =>
        /\ Premium => last.vat = "-1"
        /\ (~Premium /\ last.order.country_code \in DOMAIN vat_rates) =>
              /\ last.order.company_vatin = "" => last.vat = vat_rates[last.order.country_code]
              /\ last.order.company_vatin # "" =>
                    last.vat = (IF last.order.country_code = "PL" THEN "23" ELSE "0")
        /\ (~Premium /\ last.order.company_vatin = "") =>
              /\ last.order.country_code = "DE" => last.vat = "19"
              /\ last.order.country_code = "FI" => last.vat = "25.5"
              /\ last.order.country_code = "PL" => last.vat = "23"

C25_Witness ==
    /\ Mapped /\ ~Premium /\ last.order.country_code = "PL"
    /\ last.order.company_vatin # "" /\ last.vat = "23"

(* C26 as claimed: the VAT cell of an item that is not premium-margin and  *)
(* whose country is not in the VAT table is empty, never 0.                *)
C26_UnknownCountryEmpty_Claimed ==
    (Mapped /\ ~Premium /\ last.order.country_code \notin DOMAIN vat_rates) =>
        last.vat = ""

(* C27: the grade cell of a premium-margin item is empty; of another item  *)
(* it is "A 2" for offer grade B, "A-" for C, and the offer grade itself   *)
(* otherwise (empty when the item has no offer data).                      *)
C27_GradeMapping ==
    Mapped =>
        LET grade == IF last.order.has_offer_data THEN last.order.offer_grading ELSE ""
        IN /\ Premium => last.klasa = ""
           /\ ~Premium => last.klasa = (CASE grade = "B" -> "A 2"
                                          [] grade = "C" -> "A-"
                                          [] OTHER -> grade)

C27_Witness ==
    /\ Mapped /\ Premium /\ last.order.has_offer_data
    /\ last.order.offer_grading = "B" /\ last.klasa = ""

(* The VAT cells that read as a negative number *)
NegativeCells == {"-1"}

(* C28: the productVat of a creation request built from a mapped row is    *)
(* never negative: it is 0 for the VAT cell -1 and the VAT cell itself     *)
(* for every other row.                                                    *)
C28_NoNegativeVat ==
    last.op = "prepare_product_details" =>
        /\ last.product.productVat \notin NegativeCells
        /\ last.vat = "-1" => last.product.productVat = "0"
        /\ last.vat # "-1" => last.product.productVat = last.vat

C28_Witness ==
    /\ last.op = "prepare_product_details"
    /\ last.vat = "-1" /\ last.product.productVat = "0"
    /\ mkt[1].country_code = "DE"

---------------------------------------------------------------------------
(* Claims about push and state sync in turn *)
(* C29 as claimed: whatever complete runs of push_all and update_states    *)
(* have taken place, the ERP holds at most one order for a Marketplace id. *)
C29_AtMostOneErpOrder_Claimed ==
    \A ref \in MIds : Cardinality(ErpOrdersOf(ref)) <= 1

---------------------------------------------------------------------------
(* Claims about what create_orders reports *)
RunCreatedRefs(r) == {r.created[j].ref_id : j \in 1..Len(r.created)}
CreateCalled(r, ref) == [op |-> "create", ref |-> ref] \in r.erpCalls
CallsFor(r, ref) == {c \in r.erpCalls : c.ref = ref}
(* The run in last left no trace of the order ref: no ERP order of the run *)
(* is for it, no config row that holds its id was written by the run, and  *)
(* the last step of the run left its rows alone                            *)
Untouched(ref) ==
    /\ \A k \in (Len(erp) - Len(last.run.created) + 1)..Len(erp) : erp[k].ref # ref
    /\ \A q \in 1..Len(config) :
          config[q].ref = ref => PairOf(config, q) = PairOf(last.config0, q)
    /\ \A p \in 1..Len(orders) : orders[p].ID = ref => orders[p] = last.sheet0[p]

(* C30: in a push run, whatever the external services answer: an order is  *)
(* in the created list exactly when the ERP creation call was made for it  *)
(* and answered 200 or 207, also when a later edit or payment call for it  *)
(* fails; an order that is not in the list gets no ERP order and no config *)
(* slot, and its rows stay as they are.                                    *)
C30_CreatedExactlyOnSuccess ==
    Pushed =>
        \A ref \in PendingOrderIds :
            /\ ref \in RunCreatedRefs(last.run) <=>
                  (CreateCalled(last.run, ref) /\ CreateStatus(last.out[ref]) \in {200, 207})
            /\ (CreateCalled(last.run, ref)
                    /\ last.out[ref] \in {"edit_500", "add_payment_500", "confirm_500",
                                         "packaging_500"}) =>
                  ref \in RunCreatedRefs(last.run)
            /\ ref \notin RunCreatedRefs(last.run) => Untouched(ref)

C30_Witness ==
    /\ Pushed /\ last.run.ret = "True"
    /\ \E c \in Created(last.run) :
          /\ erp[c.idosell_id].status = "new"
          /\ CreateCalled(last.run, c.ref_id)
          /\ HasPair(config, c.ref_id, c.idosell_id)
    /\ Len(last.run.pending) = 2

---------------------------------------------------------------------------
(* Claims about orders the selected-ids answer does not hold *)
(* C31: in a push run, whatever the external services answer: for a        *)
(* pending row whose Marketplace id is not in the answer of the            *)
(* selected-ids call (the order is RETURNED or CANCELLED or unknown there, *)
(* or the call failed) no ERP call is made, the id is not in the created   *)
(* list, the ERP gets no order for it, the config table gets no pair for   *)
(* it and every row with the id stays as it is.                            *)
C31_AbsentNotSubmitted ==
    Pushed =>
        \A ref \in PendingOrderIds \ last.selected :
            /\ CallsFor(last.run, ref) = {}
            /\ ref \notin RunCreatedRefs(last.run)
            /\ Untouched(ref)

(* a push has run with two pending rows: the order of one was cancelled on *)
(* the Marketplace and got a KeyError, the other was created               *)
C31_Witness ==
    /\ Pushed /\ last.run.ret = "True" /\ Len(last.run.pending) = 2
    /\ \E j \in 1..Len(last.run.results) :
          /\ last.run.results[j].kind = "KeyError"
          /\ last.run.results[j].ref \notin last.selected
          /\ mkt[last.run.results[j].ref].state = "CANCELLED"
          /\ CallsFor(last.run, last.run.results[j].ref) = {}
          /\ \A p \in 1..Len(orders) :
                orders[p].ID = last.run.results[j].ref => orders[p].r_state = "NEW"
    /\ Created(last.run) # {}

---------------------------------------------------------------------------
(* Claims about where update_config writes *)
(* The update_config call of worker w1 has returned True; config_data is   *)
(* the Config sheet as the call read it                                    *)
Recorded == procs["w1"].pc = "list" /\ procs["w1"].cfgRet
ConfigRead == procs["w1"].config_data
NPairs == Len(procs["w1"].created_orders)
WrittenSlots == {q \in 1..Len(config) : PairOf(config, q) # PairOf(ConfigRead, q)}
PairAt(q, i) == PairOf(config, q) = [ref |-> procs["w1"].created_orders[i].ref_id,
                                     ids |-> procs["w1"].created_orders[i].idosell_id]

(* C32: after update_config has written n created pairs, every config row  *)
(* that had a non-empty marketplace-id or ERP-id cell before is unchanged;  *)
(* the rows that changed or were appended are n rows, each was free or is  *)
(* new, and each created pair is in exactly one of them.                   *)
C32_NoSlotOverwritten ==
    Recorded =>
        /\ \A q \in 1..Len(ConfigRead) :
              q \notin FreeSlots(ConfigRead) => PairOf(config, q) = PairOf(ConfigRead, q)
        /\ Len(config) >= Len(ConfigRead)
        /\ Cardinality(WrittenSlots) = NPairs
        /\ \A i \in 1..NPairs : Cardinality({q \in WrittenSlots : PairAt(q, i)}) = 1

(* two pairs were appended below a table whose last row holds a pair and   *)
(* which has one free slot                                                 *)
C32_Witness ==
    /\ Recorded /\ NPairs = 2
    /\ Len(ConfigRead) = 3 /\ Cardinality(FreeSlots(ConfigRead)) = 1
    /\ ConfigRead[3].ref # 0 /\ ConfigRead[3].ids # 0
    /\ WrittenSlots = {4, 5}

---------------------------------------------------------------------------
(* Claims about cancelled rows under the state sync *)
ErpCanceled(ref) == \E k \in 1..Len(erp) : erp[k].ref = ref /\ erp[k].status = "canceled"
WasCancelled == {r \in 1..Len(last.orders0) :
                    /\ last.orders0[r].r_state = "CANCELLED"
                    /\ ErpCanceled(last.orders0[r].ID)}

(* C33 as claimed: a row that a cancellation pass has set to CANCELLED for *)
(* a canceled ERP order is still CANCELLED after any later update_states   *)
(* run.                                                                    *)
C33_CancelledSticks_Claimed ==
    last.op = "update_states" => \A r \in WasCancelled : orders[r].r_state = "CANCELLED"

(* What the code keeps: update_states leaves a CANCELLED row alone when    *)
(* the Marketplace does not list its order (the order is CANCELLED or      *)
(* RETURNED there when the list call is made).                             *)
CancelledSticksWhenNotListed ==
    last.op = "update_states" =>
        \A r \in WasCancelled :
            (\A o \in last.run.reported : o.id # last.orders0[r].ID) => orders[r] = last.orders0[r]

---------------------------------------------------------------------------
(* Claims about repeated sync passes *)
SlotIds == 1..(MaxFree + MaxErp)
Shippable(q) ==
    /\ q \in Occupied(config) /\ config[q].ids \in 1..Len(erp)
    /\ erp[config[q].ids].status = "finished" /\ erp[config[q].ids].tracking = "UPS1"
SlotFree(q) == PairOf(config, q) = Free

(* C34 as claimed: while sync passes in which every call succeeds keep     *)
(* taking place, every config pair whose ERP order is finished with a      *)
(* tracking id is eventually cleared from the config table: from some      *)
(* point on the table holds no such pair (no pair is added in these runs   *)
(* and a finished ERP order stays finished).                               *)
C34_PairEventuallyCleared_Claimed ==
    <>[](\A q \in SlotIds : ~Shippable(q))

(* What the code keeps: such a pair is eventually cleared or its order is  *)
(* CANCELLED on the Marketplace.                                           *)
ClearedUnlessMktCancelled ==
    \A q \in SlotIds, i \in MIds :
        (Shippable(q) /\ config[q].ref = i) ~> (SlotFree(q) \/ mkt[i].state = "CANCELLED")

---------------------------------------------------------------------------
(* Claims about the counters of process_orders *)
(* C35 as claimed: in the result of a process_orders pass that returned    *)
(* status success, every tracked pair is counted once, as a success or as  *)
(* a failure: processed_count = success_count + failed_count.              *)
C35_CountedOnce_Claimed ==
    (Processed /\ last.run.status = "success") =>
        last.run.processed_count = last.run.success_count + last.run.failed_count

(* What the code keeps: the counters add up in every pass in which no      *)
(* item-state call is answered with a failure.                             *)
CountedOnceWhenChanged ==
    (Processed /\ last.run.status = "success"
        /\ \A j \in 1..Len(last.run.observed) : last.run.observed[j].changed) =>
        last.run.processed_count = last.run.success_count + last.run.failed_count

---------------------------------------------------------------------------
(* Claims about a failing batch of the state sync *)
BatchFailed == last.op = "update_states" /\ last.failing # 0
StaleRows(data, m) == {r \in 1..Len(data) : data[r].r_state # m[data[r].ID].state}

(* C36: when the list call of any batch of update_states is answered with  *)
(* a status other than 200, update_states raises and the Orders sheet and  *)
(* the config table are as they were before the run, also for the orders   *)
(* of the batches fetched before the failing one.                          *)
C36_FailedBatchWritesNothing ==
    BatchFailed =>
        /\ last.run.ret = "raised"
        /\ orders = last.orders0
        /\ config = last.config0

(* the second batch failed after a first batch that reported an order      *)
(* SHIPPED whose row says NEW and whose pair is in the config table        *)
C36_Witness ==
    /\ BatchFailed /\ last.failing = 2
    /\ \E r \in StaleRows(orders, mkt) :
          /\ r <= BatchSize
          /\ mkt[orders[r].ID].state = "SHIPPED"
          /\ \E q \in 1..Len(config) : config[q].ref = orders[r].ID

---------------------------------------------------------------------------
(* Claims about archiving *)
Archived == last.op = "archive_orders"
Returned == Archived /\ last.outcome \in {"no_r_state", "nothing_completed", "archived"}
Appended == SubSeq(archive, Len(last.archive0) + 1, Len(archive))
Count(sq, row) == Cardinality({k \in 1..Len(sq) : sq[k] = row})

---------------------------------------------------------------------------
(* Claims about update_config calls at the same time *)
BothRecorded == \A w \in Workers : procs[w].pc = "list"
PairsOf(w) == {procs[w].created_orders[i] : i \in 1..Len(procs[w].created_orders)}

(* C38 as claimed: when two update_config calls that ran at the same time  *)
(* have both finished, every pair of either call is in a slot of the       *)
(* config table.                                                           *)
C38_NoPairLost_Claimed ==
    BothRecorded =>
        \A w \in Workers : \A c \in PairsOf(w) : HasPair(config, c.ref_id, c.idosell_id)

(* What the code keeps: no pair is lost when the second call reads the     *)
(* sheet after the first has written (one call after the other).           *)
NoPairLostInTurn ==
    \A w \in Workers : \A v \in Workers \ {w} :
        (procs[w].pc = "list" /\ procs[v].pc = "cfg_read") =>
            \A c \in PairsOf(w) : HasPair(config, c.ref_id, c.idosell_id)
====
